---- MODULE Spec2Model ----
(***************************************************************************)
(* docker-orchestrate: the reconciliation of one compose service           *)
(* (DeployService) against a container engine: scale-down, rolling update  *)
(* (start-first / stop-first) and scale-up, with the batch workers, the    *)
(* shared counters and the failure-ratio gate.                             *)
(*                                                                         *)
(* Containers are numbered in the order the engine created them; the       *)
(* engine lists them in that order.  Created times of the containers that  *)
(* run at the start are a permutation, so the list order and the creation  *)
(* order differ.                                                           *)
(***************************************************************************)
EXTENDS Integers, Sequences, FiniteSets, TLC

\* Bounds of the model.
MaxRunning == 3        \* containers of the service running at the start
MaxLeftover == 1       \* stopped containers left over from an earlier run
MaxReplicas == 4       \* largest desired replica count
MaxParallelism == 2    \* largest update_config.parallelism
MaxFaults == 1         \* engine / script / compose faults injected in a run
MaxBatches == 3        \* batches a rolling update is followed for

\* max_failure_ratio values, as <<numerator, denominator>>; both are exact in
\* float32, so the float comparison of the code is the rational comparison.
MaxFailureRatios == {<<0, 1>>, <<1, 2>>}

\* update_config.delay values, in seconds.
Delays == {0, 10}

Live == {"created", "running", "exited"}
TermResults == {"ok", "stopFail", "removeFail"}

VARIABLES
    containers,   \* engine: id -> [status, created]
    input,        \* resolved inputs of DeployService (replicas, update_config)
    pc,           \* position of DeployService
    sd,           \* scaleDownContainers: [list, idx]
    ru,           \* rollingUpdateContainers: [list, i, batch, queue] and the
                  \* batches run, compose up calls and sleeps so far, the
                  \* workers launched and those whose wait failed
    output,       \* RollingUpdateOutput: [TotalUpdates, Failures]
    su,           \* scaleUpContainers: [list, i, totalUpdates, failures, batchErr]
                  \* (batchErr: <<>> for nil, else <<container, failed call>>)
    workers,      \* the goroutines of the current batch
    result,       \* what DeployService returned ("none" while it runs)
    faults,       \* faults still to inject
    log,          \* the ContainerTerminate calls, in call order
    lastStop,     \* the latest pre-stop / terminate / post-stop sequence
    passed,       \* ids whose health wait returned nil
    failed,       \* ids whose start or health wait returned an error
    report,       \* the "Deployment complete" line: [expected, actual, failures]
    rn,           \* the rename pass: [eng, tmpl, listed, list, i, calls, result, ...]
    pj,           \* DeployProject: [services, order, at, visited, result, ...]
    en,           \* DeployService before its first query: [in, pc, input, calls, result]
    hc,           \* waitForHealthcheck on one container: [pc, now, deadline, ...]
    ls,           \* a list of containers that is sorted or cut: [pc, created, ...]
    cx            \* the batch loops under a context that may be cancelled

vars == <<containers, input, pc, sd, ru, output, su, workers, result, faults,
          log, lastStop, passed, failed, report, rn, pj, en, hc, ls, cx>>

\* The state of the rename pass, of DeployProject, of the entry of
\* DeployService and of the functions looked at on their own, which the
\* phases of DeployService leave alone.
others == <<rn, pj, en, hc, ls, cx>>

\* The state of the phases of DeployService.
phases == <<containers, input, pc, sd, ru, output, su, workers, result, faults,
            log, lastStop, passed, failed, report>>

----------------------------------------------------------------------------
\* Helpers

Range(s) == {s[k] : k \in 1..Len(s)}

Min(a, b) == IF a < b THEN a ELSE b

Max(a, b) == IF a > b THEN a ELSE b

Permutations1(n) == {f \in [1..n -> 1..n] : \A a, b \in 1..n : a # b => f[a] # f[b]}

\* composeContainers: the ids of the service's containers, in the engine's
\* list order, filtered by status ("" lists every status).
composeContainers(eng, status) ==
    LET keep == IF status = "" THEN Live ELSE {status}
        F[k \in 0..Len(eng)] ==
            IF k = 0 THEN <<>>
            ELSE IF eng[k].status \in keep THEN Append(F[k - 1], k) ELSE F[k - 1]
    IN  F[Len(eng)]

\* The comparison function of sortContainersByCreationTime: a goes before b.
Before(eng, a, b, newestFirst) ==
    IF newestFirst THEN eng[a].created > eng[b].created
    ELSE eng[a].created < eng[b].created

\* sortContainersByCreationTime: slices.SortFunc on the short lists of this
\* model is an insertion sort (an element moves left past strictly later ones).
sortContainersByCreationTime(eng, list, newestFirst) ==
    LET Insert(s, x) ==
            LET pos == Cardinality({k \in 1..Len(s) : ~Before(eng, x, s[k], newestFirst)})
            IN  SubSeq(s, 1, pos) \o <<x>> \o SubSeq(s, pos + 1, Len(s))
        F[k \in 0..Len(list)] == IF k = 0 THEN <<>> ELSE Insert(F[k - 1], list[k])
    IN  F[Len(list)]

\* ContainerTerminate: stop, then remove.  A failed stop leaves the container
\* as it is, a failed remove leaves it stopped; both return an error.
ContainerTerminate(eng, id, res) ==
    IF eng[id].status \notin Live THEN eng
    ELSE [eng EXCEPT ![id].status =
            CASE res = "ok" -> "removed"
              [] res = "stopFail" -> @
              [] OTHER -> "exited"]

\* docker compose up --scale svc=n --no-recreate: starts the stopped containers
\* of the service and creates running ones until the service has n.
ComposeUp(eng, n) ==
    LET started == [k \in 1..Len(eng) |->
                      IF eng[k].status \in {"created", "exited"}
                      THEN [eng[k] EXCEPT !.status = "running"] ELSE eng[k]]
        have == Len(composeContainers(eng, ""))
        more == Max(n - have, 0)
    IN  started \o [k \in 1..more |->
                      [status |-> "running", created |-> MaxRunning + Len(eng) + k]]

\* docker compose create --scale svc=n: creates, without starting them,
\* containers until the service has n.
ComposeCreate(eng, n) ==
    LET have == Len(composeContainers(eng, ""))
        more == Max(n - have, 0)
    IN  eng \o [k \in 1..more |->
                  [status |-> "created", created |-> MaxRunning + Len(eng) + k]]

\* ContainerStart
ContainerStart(eng, id) == [eng EXCEPT ![id].status = "running"]

\* A stop sequence in which a script or terminate failed counts as one fault.
FaultsOf(o) ==
    IF o.pre = "fail" \/ o.term # "ok" \/ o.post = "fail" THEN 1 ELSE 0

\* The outcomes of one pre-stop / terminate / post-stop sequence.  A sequence
\* with a failure takes one fault; with cancelled (the errgroup context
\* of the stop-first stop phase after a first error) the calls may fail
\* without one.  postAlways: post-stop runs whatever terminate returned.
StopOutcomes(budget, cancelled, postAlways) ==
    {o \in [pre : {"ok", "fail"}, term : TermResults, post : {"ok", "fail", "notrun"}] :
        /\ (o.post = "notrun") <=> (~postAlways /\ o.term # "ok")
        /\ cancelled \/ FaultsOf(o) <= budget}

\* The record of one ContainerTerminate call.
TerminateCall(id, o, phase) == [id |-> id, ok |-> (o.term = "ok"), phase |-> phase]

\* The record of one stop sequence.
StopRecord(id, o, phase) ==
    [id |-> id, pre |-> o.pre, term |-> o.term, post |-> o.post, phase |-> phase]

NoStop == [id |-> 0, pre |-> "ok", term |-> "ok", post |-> "ok", phase |-> "none"]

\* No rename pass is under way.
NoRename == [pc |-> "none"]

\* renameContainersToConvention has been called on the listed containers.
RenameCalled(list) == [pc |-> "called", containers |-> list]

\* No project is being deployed.
NoProject == [pc |-> "none"]

\* DeployService has not been entered.
NoEntry == [pc |-> "none"]

\* No health wait is under way.
NoHealth == [pc |-> "none"]

\* No list is being sorted or cut.
NoList == [pc |-> "none"]

\* No batch loop is run under a cancellable context.
NoCancel == [pc |-> "none"]

\* None of the functions looked at on their own is running.
NoneAlone == hc = NoHealth /\ ls = NoList /\ cx = NoCancel

NoWorkers == [w \in 1..MaxParallelism |-> [pc |-> "idle", nc |-> 0, old |-> 0]]

Workers == 1..MaxParallelism

\* One goroutine per container of list, each at position at.
FanOut(list, at) ==
    [w \in Workers |-> IF w <= Len(list) THEN [pc |-> at, nc |-> list[w], old |-> 0]
                       ELSE [pc |-> "idle", nc |-> 0, old |-> 0]]

\* wg.Wait() / g.Wait() returns.
Joined == \A w \in Workers : workers[w].pc \in {"idle", "done", "stop_ok", "stop_err"}

----------------------------------------------------------------------------
\* DeployService: the state when it has resolved its inputs.

Init ==
    /\ \E n \in 0..MaxRunning, l \in 0..MaxLeftover :
         \E perm \in Permutations1(n) :
           containers = [k \in 1..(l + n) |->
                           IF k <= l THEN [status |-> "exited", created |-> 0]
                           ELSE [status |-> "running", created |-> perm[k - l]]]
    /\ input \in [replicas : 1..MaxReplicas,
                  parallelism : 0..MaxParallelism,
                  order : {"start-first", "stop-first"},
                  failureAction : {"", "pause"},
                  maxFailureRatio : MaxFailureRatios,
                  delay : Delays]
    /\ pc = "start"
    /\ sd = [list |-> <<>>, idx |-> 1]
    /\ ru = [list |-> <<>>, i |-> 0, batch |-> <<>>, queue |-> <<>>,
             batches |-> 0, ups |-> 0, sleeps |-> 0, launched |-> 0, failedWorkers |-> 0]
    /\ output = [TotalUpdates |-> 0, Failures |-> 0]
    /\ su = [list |-> <<>>, i |-> 0, totalUpdates |-> 0, failures |-> 0,
             batchErr |-> <<>>, launched |-> 0, failedWorkers |-> 0]
    /\ workers = NoWorkers
    /\ result = "none"
    /\ faults = MaxFaults
    /\ log = <<>>
    /\ lastStop = NoStop
    /\ passed = {}
    /\ failed = {}
    /\ report = [expected |-> 0, actual |-> 0, failures |-> 0]
    /\ rn = NoRename
    /\ pj = NoProject
    /\ en = NoEntry
    /\ NoneAlone

\* Mutant of Return: the error is kept and DeployService goes on to its final
\* query and the rename pass.
Return_GoesOn(err) ==
    /\ result' = err
    /\ pc' = "final"

\* DeployService returns err.
Return(err) ==
    /\ result' = err
    /\ pc' = "done"

----------------------------------------------------------------------------
\* Scale-down

\* scaleDownContainers: toRemove
ToRemove(currentReplicas, desiredReplicas) == currentReplicas - desiredReplicas

\* Mutant of ContainersToRemove: the list is sorted newest first.
ContainersToRemove_NewestFirst(eng, currentContainers, currentReplicas, desiredReplicas) ==
    LET toRemove == currentReplicas - desiredReplicas
    IN  IF toRemove <= 0 THEN <<>>
        ELSE SubSeq(sortContainersByCreationTime(eng, currentContainers, TRUE),
                    1, toRemove)

\* scaleDownContainers: containersToRemove, the first toRemove of the list
\* sorted oldest first (none when toRemove <= 0).
ContainersToRemove(eng, currentContainers, currentReplicas, desiredReplicas) ==
    LET toRemove == ToRemove(currentReplicas, desiredReplicas)
    IN  IF toRemove <= 0 THEN <<>>
        ELSE SubSeq(sortContainersByCreationTime(eng, currentContainers, FALSE),
                    1, toRemove)

\* DeployService: whether the scale-down phase runs.
NeedsScaleDown(running, replicas) == running > replicas

\* DeployService, first query: scale down when more run than desired.
DS_Begin ==
    /\ pc = "start"
    /\ LET currentContainers == composeContainers(containers, "running")
       IN  IF NeedsScaleDown(Len(currentContainers), input.replicas)
           THEN /\ sd' = [list |-> ContainersToRemove(containers, currentContainers,
                                       Len(currentContainers), input.replicas),
                          idx |-> 1]
                /\ pc' = "scale_down"
           ELSE /\ pc' = "refresh"
                /\ UNCHANGED sd
    /\ UNCHANGED <<containers, input, ru, output, su, workers, result, faults,
                   log, lastStop, passed, failed, report>>
    /\ UNCHANGED others

\* Mutant of ScaleDownContinues: a terminate error is logged and the loop
\* goes on, as in a start-first batch.
ScaleDownContinues_LogsError(o) == TRUE

\* scaleDownContainers: whether the loop goes on after a stop sequence: the
\* script results are dropped, a terminate error returns.
ScaleDownContinues(o) == o.term = "ok"

\* scaleDownContainers, one iteration of the loop: pre-stop, terminate,
\* post-stop of the next container; a terminate error returns at once.
SD_Stop ==
    /\ pc = "scale_down"
    /\ sd.idx <= Len(sd.list)
    /\ LET id == sd.list[sd.idx]
       IN  \E o \in StopOutcomes(faults, FALSE, FALSE) :
             /\ containers' = ContainerTerminate(containers, id, o.term)
             /\ log' = Append(log, TerminateCall(id, o, "scale-down"))
             /\ lastStop' = StopRecord(id, o, "scale-down")
             /\ faults' = faults - FaultsOf(o)
             /\ sd' = [sd EXCEPT !.idx = @ + 1]
             /\ IF ~ScaleDownContinues(o)
                THEN Return("err_scale_down")
                ELSE /\ pc' = IF sd.idx = Len(sd.list) THEN "refresh" ELSE "scale_down"
                     /\ UNCHANGED result
    /\ UNCHANGED <<input, ru, output, su, workers, passed, failed, report>>
    /\ UNCHANGED others

----------------------------------------------------------------------------
\* Rolling update

\* DeployService: the containers handed to rolling update: the running list
\* cut to the first replicas entries, then sorted oldest first.
ContainersToUpdate(eng, running, replicas) ==
    sortContainersByCreationTime(eng,
        IF Len(running) > replicas THEN SubSeq(running, 1, replicas) ELSE running,
        FALSE)

\* DeployService, second query: rolling update of the existing containers.
DS_Refresh ==
    /\ pc = "refresh"
    /\ LET containersToUpdate ==
               ContainersToUpdate(containers, composeContainers(containers, "running"),
                                  input.replicas)
       IN  IF Len(containersToUpdate) > 0
           THEN /\ ru' = [list |-> containersToUpdate, i |-> 0, batch |-> <<>>,
                          queue |-> <<>>, batches |-> 0, ups |-> 0, sleeps |-> 0, launched |-> 0, failedWorkers |-> 0]
                /\ pc' = "ru_loop"
           ELSE /\ pc' = "after_ru"
                /\ UNCHANGED ru
    /\ UNCHANGED <<containers, input, sd, output, su, workers, result, faults,
                   log, lastStop, passed, failed, report>>
    /\ UNCHANGED others

\* rollingUpdateContainers / scaleUpContainers: the batch that starts at i.
Batch(list, i, parallelism) ==
    LET batchSize == IF i + parallelism > Len(list) THEN Len(list) - i ELSE parallelism
    IN  SubSeq(list, i + 1, i + batchSize)

\* Mutant of NewContainers: every container that was not listed before counts
\* as new, without the cut to the batch size.
NewContainers_Uncut(eng, allContainers, currentContainers, batchLen) ==
    SelectSeq(allContainers, LAMBDA c : c \notin Range(currentContainers))

\* The new containers of a batch: the listed containers that are not in the
\* list read before compose up, cut to the batch size, newest first.
NewContainers(eng, allContainers, currentContainers, batchLen) ==
    LET fresh == SelectSeq(allContainers, LAMBDA c : c \notin Range(currentContainers))
    IN  IF Len(fresh) > batchLen
        THEN SubSeq(sortContainersByCreationTime(eng, fresh, TRUE), 1, batchLen)
        ELSE fresh

\* rollingUpdateContainers: the loop has run every batch and returns.
RU_Return ==
    /\ pc = "ru_loop"
    /\ ru.i >= Len(ru.list)
    /\ pc' = "after_ru"
    /\ UNCHANGED <<containers, input, sd, ru, output, su, workers, result, faults,
                   log, lastStop, passed, failed, report>>
    /\ UNCHANGED others

\* rollingUpdateBatchStartFirst up to the fan-out: read the running set, compose
\* up to running + batch, find the new containers, queue the old ones.
StartFirstBegin ==
    /\ pc = "ru_loop"
    /\ ru.i < Len(ru.list)
    /\ ru.batches < MaxBatches
    /\ input.order = "start-first"
    /\ LET batch == Batch(ru.list, ru.i, input.parallelism)
           currentContainers == composeContainers(containers, "running")
           newScale == Len(currentContainers) + Len(batch)
           eng == ComposeUp(containers, newScale)
           newContainers == NewContainers(eng, composeContainers(eng, ""),
                                          currentContainers, Len(batch))
       IN  \/ /\ containers' = eng
              /\ ru' = [ru EXCEPT !.batch = batch, !.queue = batch,
                                  !.batches = @ + 1, !.ups = @ + 1,
                                  !.launched = @ + Len(newContainers)]
              /\ workers' = FanOut(newContainers, "begin")
              /\ pc' = "batch"
              /\ UNCHANGED <<result, faults>>
           \/ /\ faults > 0
              /\ faults' = faults - 1
              /\ ru' = [ru EXCEPT !.batch = batch, !.batches = @ + 1, !.ups = @ + 1]
              /\ Return("err_compose")
              /\ UNCHANGED <<containers, workers>>
    /\ UNCHANGED <<input, sd, output, su, log, lastStop, passed, failed, report>>
    /\ UNCHANGED others

\* Mutant of Increment: the update of the counter is lost.
Increment_Lost(n) == n

\* counter++ with the batch's mutex held: no other worker is between the
\* read and the write.
Increment(n) == n + 1

\* A batch worker counts its container: output.TotalUpdates++ under the mutex.
W_Begin(w) ==
    /\ pc = "batch"
    /\ workers[w].pc = "begin"
    /\ output' = [output EXCEPT !.TotalUpdates = Increment(@)]
    /\ workers' = [workers EXCEPT ![w].pc = "health"]
    /\ UNCHANGED <<containers, input, pc, sd, ru, su, result, faults, log, lastStop, passed,
                   failed, report>>
    /\ UNCHANGED others

\* Mutant of AfterHealth: a start-first worker pops the queue whatever the
\* health wait returned.
AfterHealth_IgnoresResult(order, healthy) ==
    IF order = "start-first" THEN "pop"
    ELSE IF healthy THEN "done" ELSE "cleanup"

\* Mutant of AfterHealth: the new container is cleaned up whatever the health
\* wait returned.
AfterHealth_AlwaysCleanup(order, healthy) == "cleanup"

\* Where a rolling-update worker goes after waitForHealthcheck: a start-first
\* worker with a healthy container pops the queue, a stop-first one is done;
\* a failed container is cleaned up.
AfterHealth(order, healthy) ==
    IF ~healthy THEN "cleanup"
    ELSE IF order = "start-first" THEN "pop" ELSE "done"

\* waitForHealthcheck returns for the worker's new container; on an error the
\* worker counts the failure (output.Failures++ under the mutex).
W_Health(w) ==
    /\ pc = "batch"
    /\ workers[w].pc = "health"
    /\ \E healthy \in BOOLEAN :
         /\ workers' = [workers EXCEPT ![w].pc = AfterHealth(input.order, healthy)]
         /\ IF healthy
            THEN /\ passed' = passed \cup {workers[w].nc}
                 /\ UNCHANGED <<failed, output, ru>>
            ELSE /\ failed' = failed \cup {workers[w].nc}
                 /\ output' = [output EXCEPT !.Failures = Increment(@)]
                 /\ ru' = [ru EXCEPT !.failedWorkers = @ + 1]
                 /\ UNCHANGED passed
    /\ UNCHANGED <<containers, input, pc, sd, su, result, faults, log, lastStop, report>>
    /\ UNCHANGED others

\* Mutant of W_Cleanup: the cleanup stops the first old container of the batch
\* in place of the failed new one.
W_Cleanup_StopsOld(w) ==
    /\ pc \in {"batch", "su_batch"}
    /\ workers[w].pc = "cleanup"
    /\ LET target == IF Len(ru.batch) > 0 THEN ru.batch[1] ELSE workers[w].nc
       IN  \E o \in StopOutcomes(faults, FALSE, TRUE) :
             /\ containers' = ContainerTerminate(containers, target, o.term)
             /\ log' = Append(log, TerminateCall(target, o, "cleanup-new"))
             /\ lastStop' = StopRecord(target, o, "cleanup-new")
             /\ faults' = faults - FaultsOf(o)
    /\ workers' = [workers EXCEPT ![w].pc = "done"]
    /\ UNCHANGED <<input, pc, sd, ru, output, su, result, passed, failed, report>>
    /\ UNCHANGED others

\* The cleanup of a new container that failed: pre-stop, terminate, post-stop,
\* every result ignored.
W_Cleanup(w) ==
    /\ pc \in {"batch", "su_batch"}
    /\ workers[w].pc = "cleanup"
    /\ \E o \in StopOutcomes(faults, FALSE, TRUE) :
         /\ containers' = ContainerTerminate(containers, workers[w].nc, o.term)
         /\ log' = Append(log, TerminateCall(workers[w].nc, o, "cleanup-new"))
         /\ lastStop' = StopRecord(workers[w].nc, o, "cleanup-new")
         /\ faults' = faults - FaultsOf(o)
    /\ workers' = [workers EXCEPT ![w].pc = "done"]
    /\ UNCHANGED <<input, pc, sd, ru, output, su, result, passed, failed, report>>
    /\ UNCHANGED others

\* Mutant of Receive: the old container is read and left in the queue.
Receive_LeavesInQueue(queue) ==
    IF Len(queue) = 0 THEN [old |-> 0, rest |-> queue]
    ELSE [old |-> Head(queue), rest |-> queue]

\* oldContainer, ok := <-oldContainersToStop: what is received (0: the channel
\* is closed and empty) and what stays in the channel.
Receive(queue) ==
    IF Len(queue) = 0 THEN [old |-> 0, rest |-> queue]
    ELSE [old |-> Head(queue), rest |-> Tail(queue)]

\* A start-first worker whose container is healthy pops one old container.
StartFirstPop(w) ==
    /\ pc = "batch"
    /\ workers[w].pc = "pop"
    /\ LET r == Receive(ru.queue)
       IN  /\ ru' = [ru EXCEPT !.queue = r.rest]
           /\ workers' = [workers EXCEPT ![w].old = r.old,
                                         ![w].pc = IF r.old # 0 THEN "retire" ELSE "done"]
    /\ UNCHANGED <<containers, input, pc, sd, output, su, result, faults, log, lastStop,
                   passed, failed, report>>
    /\ UNCHANGED others

\* The worker stops the old container it popped: pre-stop, terminate (an error
\* is logged), post-stop.
StartFirstRetire(w) ==
    /\ pc = "batch"
    /\ workers[w].pc = "retire"
    /\ \E o \in StopOutcomes(faults, FALSE, TRUE) :
         /\ containers' = ContainerTerminate(containers, workers[w].old, o.term)
         /\ log' = Append(log, TerminateCall(workers[w].old, o, "retire-old"))
             /\ lastStop' = StopRecord(workers[w].old, o, "retire-old")
         /\ faults' = faults - FaultsOf(o)
    /\ workers' = [workers EXCEPT ![w].pc = "done"]
    /\ UNCHANGED <<input, pc, sd, ru, output, su, result, passed, failed, report>>
    /\ UNCHANGED others

\* Mutant of RatioExceeded: the ratio is computed by integer division.
RatioExceeded_IntegerDivision(failures, totalUpdates, maxFailureRatio) ==
    /\ maxFailureRatio[1] > 0
    /\ totalUpdates > 0
    /\ (failures \div totalUpdates) * maxFailureRatio[2] > maxFailureRatio[1]

\* Mutant of RatioExceeded: a ratio of 0/0 counts as above the maximum.
RatioExceeded_NaNExceeds(failures, totalUpdates, maxFailureRatio) ==
    /\ maxFailureRatio[1] > 0
    /\ \/ totalUpdates = 0
       \/ failures * maxFailureRatio[2] > maxFailureRatio[1] * totalUpdates

\* failureRatio > maxFailureRatio with maxFailureRatio > 0; 0/0 is NaN, which
\* compares false.
RatioExceeded(failures, totalUpdates, maxFailureRatio) ==
    /\ maxFailureRatio[1] > 0
    /\ totalUpdates > 0
    /\ failures * maxFailureRatio[2] > maxFailureRatio[1] * totalUpdates

\* Mutant of Paused: a counted failure pauses under every failure_action.
Paused_OnAnyFailure(failureAction, failures) == failures > 0

\* failure_action pause with a failure counted.
Paused(failureAction, failures) == failureAction = "pause" /\ failures > 0

\* Mutant of BatchVerdict: the pause check is made only under a positive
\* max_failure_ratio.
BatchVerdict_PauseUnderRatio(failures, totalUpdates, maxFailureRatio, failureAction) ==
    IF maxFailureRatio[1] > 0
    THEN IF failures * maxFailureRatio[2] > maxFailureRatio[1] * totalUpdates
         THEN "err_ratio"
         ELSE IF failureAction = "pause" /\ failures > 0 THEN "err_pause" ELSE "ok"
    ELSE "ok"

\* The checks after wg.Wait(): the ratio gate first, then pause.
BatchVerdict(failures, totalUpdates, maxFailureRatio, failureAction) ==
    IF RatioExceeded(failures, totalUpdates, maxFailureRatio) THEN "err_ratio"
    ELSE IF Paused(failureAction, failures) THEN "err_pause"
    ELSE "ok"

\* Mutant of NextBatch: the loop passes over one container between batches.
NextBatch_SkipsOne(i, parallelism) == i + parallelism + 1

\* rollingUpdateContainers: the index of the next batch.
NextBatch(i, parallelism) == i + parallelism

\* Mutant of WaitsForDelay: the sleep is also made after the last batch.
WaitsForDelay_AfterLast(i, batchSize, n, delay) == i + batchSize <= n /\ delay > 0

\* rollingUpdateContainers: whether the loop sleeps for delay after the batch
\* of batchSize containers that starts at i, of n containers.
WaitsForDelay(i, batchSize, n, delay) == i + batchSize < n /\ delay > 0

\* A rolling-update batch after wg.Wait(): the ratio and pause checks on the
\* counters of the rolling update, then the next batch.
RU_Join ==
    /\ pc = "batch"
    /\ Joined
    /\ LET v == BatchVerdict(output.Failures, output.TotalUpdates,
                             input.maxFailureRatio, input.failureAction)
       IN  IF v # "ok"
           THEN /\ Return(v)
                /\ UNCHANGED ru
           ELSE /\ ru' = [ru EXCEPT !.i = NextBatch(@, input.parallelism),
                                    !.batch = <<>>, !.queue = <<>>,
                                    !.sleeps = IF WaitsForDelay(ru.i, Len(ru.batch),
                                                                Len(ru.list), input.delay)
                                               THEN @ + 1 ELSE @]
                /\ pc' = "ru_loop"
                /\ UNCHANGED result
    /\ workers' = NoWorkers
    /\ UNCHANGED <<containers, input, sd, output, su, faults, log, lastStop, passed, failed,
                   report>>
    /\ UNCHANGED others

\* rollingUpdateBatchStopFirst: one errgroup goroutine per old container.
StopFirstBegin ==
    /\ pc = "ru_loop"
    /\ ru.i < Len(ru.list)
    /\ ru.batches < MaxBatches
    /\ input.order # "start-first"
    /\ LET batch == Batch(ru.list, ru.i, input.parallelism)
       IN  /\ ru' = [ru EXCEPT !.batch = batch, !.batches = @ + 1]
           /\ workers' = FanOut(batch, "stop")
    /\ pc' = "st_stop"
    /\ UNCHANGED <<containers, input, sd, output, su, result, faults, log, lastStop, passed,
                   failed, report>>
    /\ UNCHANGED others

\* An errgroup goroutine: pre-stop, terminate, post-stop; returns terminate's
\* error, which cancels the context of the others.
StopFirstStop(w) ==
    /\ pc = "st_stop"
    /\ workers[w].pc = "stop"
    /\ LET cancelled == \E v \in Workers : workers[v].pc = "stop_err"
       IN  \E o \in StopOutcomes(faults, cancelled, TRUE) :
             /\ containers' = ContainerTerminate(containers, workers[w].nc, o.term)
             /\ log' = Append(log, TerminateCall(workers[w].nc, o, "stop-old"))
             /\ lastStop' = StopRecord(workers[w].nc, o, "stop-old")
             /\ faults' = IF cancelled THEN faults ELSE faults - FaultsOf(o)
             /\ workers' = [workers EXCEPT
                              ![w].pc = IF o.term = "ok" THEN "stop_ok" ELSE "stop_err"]
    /\ UNCHANGED <<input, pc, sd, ru, output, su, result, passed, failed, report>>
    /\ UNCHANGED others

\* Mutant of StopError: the error of the errgroup is passed over.
StopError_Ignored(ws) == FALSE

\* rollingUpdateBatchStopFirst: g.Wait() returns an error, the first that a
\* goroutine returned.
StopError(ws) == \E w \in Workers : ws[w].pc = "stop_err"

\* rollingUpdateBatchStopFirst after g.Wait(): an error aborts the batch; else
\* read the containers, compose up to that many + batch, fan out the health
\* workers.
StopFirstUp ==
    /\ pc = "st_stop"
    /\ Joined
    /\ IF StopError(workers)
       THEN /\ Return("err_stop")
            /\ workers' = NoWorkers
            /\ UNCHANGED <<containers, faults, ru>>
       ELSE LET currentContainers == composeContainers(containers, "")
                targetScale == Len(currentContainers) + Len(ru.batch)
                eng == ComposeUp(containers, targetScale)
                newContainers == NewContainers(eng, composeContainers(eng, ""),
                                               currentContainers, Len(ru.batch))
            IN  /\ \/ /\ containers' = eng
                      /\ ru' = [ru EXCEPT !.ups = @ + 1,
                                          !.launched = @ + Len(newContainers)]
                      /\ workers' = FanOut(newContainers, "begin")
                      /\ pc' = "batch"
                      /\ UNCHANGED <<result, faults>>
                   \/ /\ faults > 0
                      /\ faults' = faults - 1
                      /\ ru' = [ru EXCEPT !.ups = @ + 1]
                      /\ Return("err_compose")
                      /\ workers' = NoWorkers
                      /\ UNCHANGED containers
    /\ UNCHANGED <<input, sd, output, su, log, lastStop, passed, failed, report>>
    /\ UNCHANGED others

----------------------------------------------------------------------------
\* Scale-up

\* Mutant of NeedsScaleUp: scale-up also runs when the count is as desired.
NeedsScaleUp_AtOrBelow(running, replicas) == running <= replicas

\* DeployService: whether the scale-up phase runs.
NeedsScaleUp(running, replicas) == running < replicas

\* scaleUpContainers: the listed containers that are not in ExistingContainers.
CreatedContainers(allContainers, existingContainers) ==
    SelectSeq(allContainers, LAMBDA c : c \notin Range(existingContainers))

\* DeployService, third query; scaleUpContainers up to its loop: compose create
\* to replicas, list, keep the containers that were not running before.
DS_AfterRU ==
    /\ pc = "after_ru"
    /\ LET updatedContainers == composeContainers(containers, "running")
       IN  IF NeedsScaleUp(Len(updatedContainers), input.replicas)
           THEN \/ LET eng == ComposeCreate(containers, input.replicas)
                       createdContainers ==
                           CreatedContainers(composeContainers(eng, ""), updatedContainers)
                   IN  /\ containers' = eng
                       /\ su' = [list |-> createdContainers, i |-> 0, totalUpdates |-> 0,
                                 failures |-> 0, batchErr |-> <<>>, launched |-> 0, failedWorkers |-> 0]
                       /\ pc' = IF Len(createdContainers) = 0 THEN "final" ELSE "su_loop"
                       /\ UNCHANGED <<result, faults>>
                \/ /\ faults > 0
                   /\ faults' = faults - 1
                   /\ Return("err_compose")
                   /\ UNCHANGED <<containers, su>>
           ELSE /\ pc' = "final"
                /\ UNCHANGED <<containers, su, result, faults>>
    /\ UNCHANGED <<input, sd, ru, output, workers, log, lastStop, passed, failed, report>>
    /\ UNCHANGED others

\* scaleUpContainers: the loop has run every batch and returns nil.
SU_Return ==
    /\ pc = "su_loop"
    /\ su.i >= Len(su.list)
    /\ pc' = "final"
    /\ UNCHANGED <<containers, input, sd, ru, output, su, workers, result, faults,
                   log, lastStop, passed, failed, report>>
    /\ UNCHANGED others

\* scaleUpContainers: the next batch, one goroutine per created container.
SU_Batch ==
    /\ pc = "su_loop"
    /\ su.i < Len(su.list)
    /\ workers' = FanOut(Batch(su.list, su.i, input.parallelism), "begin")
    /\ su' = [su EXCEPT !.batchErr = <<>>,
                        !.launched = @ + Len(Batch(su.list, su.i, input.parallelism))]
    /\ pc' = "su_batch"
    /\ UNCHANGED <<containers, input, sd, ru, output, result, faults, log, lastStop, passed,
                   failed, report>>
    /\ UNCHANGED others

\* Mutant of KeepFirst: the slot takes every error, the last one stays.
KeepFirst_Overwrites(batchErr, err) == err

\* scaleUpContainers: if batchErr == nil { batchErr = err }, under the mutex.
\* batchErr is <<>> when nil, else the container and the call that failed.
KeepFirst(batchErr, err) == IF batchErr = <<>> THEN err ELSE batchErr

\* A scale-up worker counts its container: totalUpdates++ under the mutex.
SUW_Begin(w) ==
    /\ pc = "su_batch"
    /\ workers[w].pc = "begin"
    /\ su' = [su EXCEPT !.totalUpdates = Increment(@)]
    /\ workers' = [workers EXCEPT ![w].pc = "start"]
    /\ UNCHANGED <<containers, input, pc, sd, ru, output, result, faults, log, lastStop,
                   passed, failed, report>>
    /\ UNCHANGED others

\* ContainerStart of the worker's container; an error is counted and kept in
\* batchErr, and the worker returns.
SUW_Start(w) ==
    /\ pc = "su_batch"
    /\ workers[w].pc = "start"
    /\ \/ /\ containers' = ContainerStart(containers, workers[w].nc)
          /\ workers' = [workers EXCEPT ![w].pc = "health"]
          /\ UNCHANGED <<su, faults, failed>>
       \/ /\ faults > 0
          /\ faults' = faults - 1
          /\ su' = [su EXCEPT !.failures = Increment(@),
                              !.failedWorkers = @ + 1,
                              !.batchErr = KeepFirst(@, <<workers[w].nc, "start">>)]
          /\ failed' = failed \cup {workers[w].nc}
          /\ workers' = [workers EXCEPT ![w].pc = "done"]
          /\ UNCHANGED containers
    /\ UNCHANGED <<input, pc, sd, ru, output, result, log, lastStop, passed, report>>
    /\ UNCHANGED others

\* waitForHealthcheck returns for a started container; an error is counted
\* and kept in batchErr, and the container is cleaned up.
SUW_Health(w) ==
    /\ pc = "su_batch"
    /\ workers[w].pc = "health"
    /\ \E healthy \in BOOLEAN :
         IF healthy
         THEN /\ passed' = passed \cup {workers[w].nc}
              /\ workers' = [workers EXCEPT ![w].pc = "done"]
              /\ UNCHANGED <<su, failed>>
         ELSE /\ failed' = failed \cup {workers[w].nc}
              /\ su' = [su EXCEPT !.failures = Increment(@),
                                  !.failedWorkers = @ + 1,
                                  !.batchErr = KeepFirst(@, <<workers[w].nc, "health">>)]
              /\ workers' = [workers EXCEPT ![w].pc = "cleanup"]
              /\ UNCHANGED passed
    /\ UNCHANGED <<containers, input, pc, sd, ru, output, result, faults, log, lastStop,
                   report>>
    /\ UNCHANGED others

\* scaleUpContainers: batchErr is returned only when max_failure_ratio is 0.
ReturnsBatchErr(batchErr, maxFailureRatio) == batchErr # <<>> /\ maxFailureRatio[1] = 0

\* A scale-up batch after wg.Wait(): ratio, pause and batchErr checks on the
\* counters of scale-up, then the next batch.
SU_Join ==
    /\ pc = "su_batch"
    /\ Joined
    /\ LET v == BatchVerdict(su.failures, su.totalUpdates, input.maxFailureRatio,
                             input.failureAction)
       IN  IF v # "ok"
           THEN /\ Return(v)
                /\ UNCHANGED su
           ELSE IF ReturnsBatchErr(su.batchErr, input.maxFailureRatio)
           THEN /\ Return("err_batch")
                /\ UNCHANGED su
           ELSE /\ su' = [su EXCEPT !.i = NextBatch(@, input.parallelism)]
                /\ pc' = "su_loop"
                /\ UNCHANGED result
    /\ workers' = NoWorkers
    /\ UNCHANGED <<containers, input, sd, ru, output, faults, log, lastStop, passed, failed,
                   report>>
    /\ UNCHANGED others

----------------------------------------------------------------------------
\* Completion

\* The failures figure of the "Deployment complete" line.
ReportedFailures == output.Failures

\* DeployService, final query and rename pass (its steps are RN_Begin,
\* RN_Rename, RN_Return): the error of a rename is returned; else the
\* "Deployment complete" line and nil.
DS_Final ==
    /\ pc = "final"
    /\ LET finalContainers == composeContainers(containers, "running")
       IN  \/ /\ report' = [expected |-> input.replicas,
                             actual |-> Len(finalContainers),
                             failures |-> ReportedFailures]
              /\ result' = "ok"
              /\ pc' = "done"
           \/ /\ Len(finalContainers) > 0
              /\ Return("err_rename")
              /\ UNCHANGED report
    /\ rn' = RenameCalled(composeContainers(containers, "running"))
    /\ UNCHANGED <<containers, input, sd, ru, output, su, workers, faults, log, lastStop,
                   passed, failed>>
    /\ UNCHANGED <<pj, en, hc, ls, cx>>

Next ==
    \/ DS_Begin
    \/ SD_Stop
    \/ DS_Refresh
    \/ RU_Return
    \/ StartFirstBegin
    \/ StopFirstBegin
    \/ StopFirstUp
    \/ RU_Join
    \/ DS_AfterRU
    \/ SU_Return
    \/ SU_Batch
    \/ SU_Join
    \/ DS_Final
    \/ \E w \in Workers :
         \/ W_Begin(w)
         \/ W_Health(w)
         \/ W_Cleanup(w)
         \/ StartFirstPop(w)
         \/ StartFirstRetire(w)
         \/ StopFirstStop(w)
         \/ SUW_Begin(w)
         \/ SUW_Start(w)
         \/ SUW_Health(w)

Spec == Init /\ [][Next]_vars

----------------------------------------------------------------------------
\* Properties

\* The containers that ran when DeployService began (a leftover has created
\* 0, a container created by compose a created above MaxRunning).
InitialRunning ==
    {id \in 1..Len(containers) : containers[id].created \in 1..MaxRunning}

\* The ContainerTerminate calls of one phase, in call order.
CallsOf(phase) == SelectSeq(log, LAMBDA e : e.phase = phase)

IdsOf(calls) == {calls[k].id : k \in 1..Len(calls)}

StartFirst == input.order = "start-first"

\* The containers that run and are known healthy: the untouched old ones and
\* the ones whose health wait passed.
LiveHealthy ==
    {id \in 1..Len(containers) :
        /\ containers[id].status = "running"
        /\ \/ id \in passed
           \/ id \in InitialRunning /\ id \notin IdsOf(log)}

\* C1 (state part): in start-first, a worker holds or has stopped an old
\* container only if its own new container passed the health wait, that old
\* container is one of the batch, and no old container is stopped while no new
\* container has passed.
C1_RetireOnlyAfterHealthy ==
    StartFirst =>
        /\ \A w \in Workers :
             workers[w].old # 0 =>
                 /\ workers[w].nc \in passed
                 /\ workers[w].old \in Range(ru.batch)
        /\ passed = {} => Len(CallsOf("retire-old")) = 0

\* C1 (step part): in start-first, a terminate of an old container of the
\* batch is made by a worker whose new container is healthy, and a worker that
\* cleans up its failed container terminates that container, which is no old
\* container of the batch.
C1_StepOnlyOwn ==
    (StartFirst /\ pc = "batch" /\ Len(log') = Len(log) + 1) =>
        LET e == log'[Len(log')]
        IN  /\ e.id \in Range(ru.batch) =>
                \E w \in Workers :
                    /\ workers[w].pc = "retire"
                    /\ workers[w].old = e.id
                    /\ workers[w].nc \in passed
            /\ \A w \in Workers :
                 (workers[w].pc = "cleanup" /\ workers'[w].pc = "done") =>
                     /\ e.id = workers[w].nc
                     /\ e.id \notin Range(ru.batch)

\* C1: in a start-first batch an old container is terminated only after a new
\* container of the batch passed its health wait; a worker whose container
\* fails terminates only that container, never an old one.
C1_OldStoppedOnlyAfterHealthyNew ==
    [] C1_RetireOnlyAfterHealthy /\ [][C1_StepOnlyOwn]_vars

\* C1 witness: a start-first update of one old container whose new container
\* failed and was cleaned up; the old one still runs.
C1_Witness ==
    /\ StartFirst
    /\ pc = "done"
    /\ Len(ru.list) = 1
    /\ Len(CallsOf("cleanup-new")) = 1
    /\ Len(CallsOf("retire-old")) = 0
    /\ containers[ru.list[1]].status = "running"

\* C2: in a start-first batch no two workers hold the same old container, a
\* popped container is no longer in the queue, no old container is terminated
\* twice, and the retire calls of the update are no more than the workers that
\* passed.
C2_SingleRetirement ==
    StartFirst =>
        /\ \A w, v \in Workers :
             (w # v /\ workers[w].old # 0) => workers[w].old # workers[v].old
        /\ \A w \in Workers : workers[w].old \notin Range(ru.queue)
        /\ \A a, b \in 1..Len(CallsOf("retire-old")) :
             a # b => CallsOf("retire-old")[a].id # CallsOf("retire-old")[b].id
        /\ Len(CallsOf("retire-old")) <= Cardinality(passed)

\* C2 witness: two workers of one batch have each retired an old container.
C2_Witness ==
    /\ StartFirst
    /\ pc = "batch"
    /\ \E w, v \in Workers :
         /\ w # v
         /\ workers[w].pc = "done" /\ workers[w].old # 0
         /\ workers[v].pc = "done" /\ workers[v].old # 0

\* C3 as stated: after a start-first rolling update, the old containers that
\* are terminated (stopped and removed) are as many as the new containers
\* that passed the health wait.
C3_Original ==
    (StartFirst /\ pc = "after_ru") =>
        Cardinality({id \in Range(ru.list) : containers[id].status = "removed"})
            = Cardinality(passed)

\* C3 amended: between the batches and at the end of a start-first rolling
\* update, the old containers on which terminate was called (it may fail, which
\* is only logged) are as many as the new containers that passed the health
\* wait, and as many as TotalUpdates - Failures.
C3_RetireCallsEqualPassed ==
    (StartFirst /\ pc \in {"ru_loop", "after_ru"}) =>
        /\ Len(CallsOf("retire-old")) = Cardinality(passed)
        /\ Len(CallsOf("retire-old")) = output.TotalUpdates - output.Failures
        /\ IdsOf(CallsOf("retire-old")) \subseteq Range(ru.list)

\* C3 witness: a start-first update of three containers has returned; two new
\* containers passed, one failed.
C3_Witness ==
    /\ StartFirst
    /\ pc = "after_ru"
    /\ Len(ru.list) = 3
    /\ Cardinality(passed) = 2
    /\ output.Failures = 1

\* Strictly between two batches of the rolling update.
BetweenBatches == pc = "ru_loop" /\ ru.i > 0 /\ ru.i < Len(ru.list)

\* C4 as stated: between batches the live and healthy containers are at least
\* replicas - parallelism (start-first), max(0, current - batchSize) (stop-first).
C4_Original ==
    BetweenBatches =>
        IF StartFirst
        THEN Cardinality(LiveHealthy) >= input.replicas - input.parallelism
        ELSE Cardinality(LiveHealthy)
                >= Max(0, Len(ru.list) - Min(input.parallelism, Len(ru.list)))

\* C4 amended: before, between and after the batches of a rolling update the
\* live and healthy containers are at least the number that ran when the update
\* began (start-first), and at least that number less the old containers of
\* the batches already run (stop-first).
C4_LiveFloor ==
    (pc = "ru_loop") =>
        IF StartFirst
        THEN Cardinality(LiveHealthy) >= Len(ru.list)
        ELSE Cardinality(LiveHealthy) >= Len(ru.list) - Min(ru.i, Len(ru.list))

\* C4 witness: between two start-first batches, after a new container failed
\* its health wait and another passed.
C4_Witness ==
    /\ BetweenBatches
    /\ StartFirst
    /\ output.Failures > 0
    /\ passed # {}

\* C5 as stated: when DeployService returns success, the running containers
\* are as many as the desired replicas.
C5_Original ==
    result = "ok" => report.actual = report.expected

\* The ratio failures / totalUpdates is above maxFailureRatio, in exact
\* arithmetic.
AboveRatio(failures, totalUpdates) ==
    /\ totalUpdates > 0
    /\ failures * input.maxFailureRatio[2] > input.maxFailureRatio[1] * totalUpdates

\* The step on which a batch's wg.Wait() has returned and its checks run.
BatchEnds == pc \in {"batch", "su_batch"} /\ Joined /\ pc' # pc

\* The counters the checks of the batch that ends read.
EndFailures == IF pc = "batch" THEN output.Failures ELSE su.failures

EndTotalUpdates == IF pc = "batch" THEN output.TotalUpdates ELSE su.totalUpdates

\* C6 (step): a batch that ends with maxFailureRatio > 0 and the ratio above
\* it returns the ratio error and DeployService is done.
C6_Step ==
    (BatchEnds /\ input.maxFailureRatio[1] > 0
        /\ AboveRatio(EndFailures, EndTotalUpdates)) =>
        /\ result' = "err_ratio"
        /\ pc' = "done"

\* C6: after every batch of rolling update and scale-up, a failure ratio above
\* a positive maxFailureRatio makes the operation return 'max failure ratio
\* exceeded' and aborts the service, for failureAction pause and ''.
C6_RatioGate == [][C6_Step]_vars

\* C6 witness: the ratio error was returned with failureAction ''.
C6_Witness ==
    /\ result = "err_ratio"
    /\ input.failureAction = ""

\* C7 (step): with failureAction pause, a batch that ends with failures > 0
\* returns an error and DeployService is done.
C7_Step ==
    (BatchEnds /\ input.failureAction = "pause" /\ EndFailures > 0) =>
        /\ result' \in {"err_ratio", "err_pause"}
        /\ pc' = "done"

\* C7: with failureAction pause every batch that ends with failures > 0
\* returns an error and aborts, also with maxFailureRatio 0 and with a ratio
\* that is not exceeded.
C7_PauseAborts == [][C7_Step]_vars

\* C7 witness: paused with a ratio that is positive and not exceeded.
C7_Witness ==
    /\ result = "err_pause"
    /\ input.maxFailureRatio[1] > 0
    /\ output.TotalUpdates = 2
    /\ output.Failures = 1

\* C8 as stated: the failures reported at completion are all the failures of
\* the reconciliation, rolling update and scale-up together.
C8_Original ==
    result = "ok" => report.failures = output.Failures + su.failures

\* The n oldest of a set of containers.
Oldest(S, n) ==
    {id \in S :
        Cardinality({j \in S : containers[j].created < containers[id].created}) < n}

\* C9: scale-down terminates the current - desired oldest containers, one at
\* a time in ascending created order, and no other; it terminates nothing when
\* no more run than desired.
C9_ScaleDownOldestFirst ==
    LET calls == CallsOf("scale-down")
        n == Cardinality(InitialRunning) - input.replicas
    IN  /\ \A a, b \in 1..Len(calls) :
             a < b => containers[calls[a].id].created < containers[calls[b].id].created
        /\ IdsOf(calls) \subseteq Oldest(InitialRunning, n)
        /\ (pc \notin {"start", "scale_down"} /\ result # "err_scale_down")
              => /\ IdsOf(calls) = Oldest(InitialRunning, n)
                 /\ Len(calls) = Max(n, 0)
                 /\ \A k \in 1..Len(calls) : calls[k].ok

\* C9 witness: scale-down from three to one has terminated the two oldest.
C9_Witness ==
    /\ pc = "refresh"
    /\ Cardinality(InitialRunning) = 3
    /\ input.replicas = 1
    /\ Len(CallsOf("scale-down")) = 2

\* C10 (step): an iteration of scale-down calls terminate on its container
\* whatever the pre-stop script returned; it goes on when terminate succeeded,
\* whatever the post-stop script returned, and returns the error when not.
C10_Step ==
    (pc = "scale_down") =>
        /\ Len(log') = Len(log) + 1
        /\ log'[Len(log')].id = sd.list[sd.idx]
        /\ lastStop'.id = sd.list[sd.idx]
        /\ IF log'[Len(log')].ok
           THEN /\ result' = "none"
                /\ pc' \in {"scale_down", "refresh"}
                /\ lastStop'.post # "notrun"
           ELSE /\ result' = "err_scale_down"
                /\ pc' = "done"

\* C10 (state): after the scale-down error nothing else was terminated and no
\* later phase has run.
C10_Aborted ==
    result = "err_scale_down" =>
        /\ pc = "done"
        /\ \A k \in 1..Len(log) :
             log[k].phase = "scale-down" /\ (log[k].ok <=> k < Len(log))
        /\ ru.list = <<>>
        /\ su.list = <<>>
        /\ output.TotalUpdates = 0
        /\ passed \cup failed = {}

\* C10: in scale-down a pre-stop or post-stop script failure neither aborts
\* nor skips the terminate; the first terminate failure returns an error at
\* once, no later container is terminated and no further phase runs.
C10_ScaleDownErrors == [] C10_Aborted /\ [][C10_Step]_vars

\* C10 witness: the pre-stop script of the first of two containers to remove
\* failed, terminate was still called, it failed, and scale-down returned.
C10_Witness ==
    /\ result = "err_scale_down"
    /\ Len(sd.list) = 2
    /\ Len(log) = 1
    /\ lastStop.pre = "fail"
    /\ lastStop.term # "ok"

----------------------------------------------------------------------------
\* Batching of the rolling update

Ceil(n, p) == (n + p - 1) \div p

\* The rolling update has run its last batch.
RollingUpdateComplete == Len(ru.list) > 0 /\ ru.i >= Len(ru.list)

\* C20 (state): with parallelism p >= 1, between batches the batches run are
\* ceil(i/p), each with one compose up, and no worker is alive; the sleeps
\* are one per batch run while batches remain and one less at the end with a
\* positive delay, and none with delay 0.
C20_BatchCounts ==
    (input.parallelism >= 1 /\ pc = "ru_loop") =>
        /\ workers = NoWorkers
        /\ ru.batches = Ceil(Min(ru.i, Len(ru.list)), input.parallelism)
        /\ ru.ups = ru.batches
        /\ ru.sleeps = IF input.delay = 0 THEN 0
                       ELSE IF ru.i >= Len(ru.list) THEN ru.batches - 1
                       ELSE ru.batches
        /\ RollingUpdateComplete => ru.batches = Ceil(Len(ru.list), input.parallelism)

\* C20 (step): a batch starts only between batches, takes at most p
\* containers, and compose up is called once in it.
C20_Step ==
    (input.parallelism >= 1 /\ ru'.batches = ru.batches + 1) =>
        /\ pc = "ru_loop"
        /\ workers = NoWorkers
        /\ Len(ru'.batch) = Min(input.parallelism, Len(ru.list) - ru.i)
        /\ \A w \in Workers : workers'[w].pc # "idle" => w <= Len(ru'.batch)

\* C20: a rolling update over n containers with parallelism p >= 1 runs
\* ceil(n/p) batches of at most p containers, one after another, calls compose
\* up once per batch, and sleeps for delay once between two consecutive
\* batches when delay > 0 and never after the last batch.
C20_Batches ==
    /\ [] C20_BatchCounts
    /\ [] (ru.ups <= ru.batches /\ ru.ups >= ru.batches - 1)
    /\ [][C20_Step]_vars

\* C20 witness: three containers were updated two at a time with a delay: two
\* batches, two compose up calls, one sleep.
C20_Witness ==
    /\ RollingUpdateComplete
    /\ Len(ru.list) = 3
    /\ input.parallelism = 2
    /\ input.delay > 0
    /\ ru.batches = 2
    /\ ru.ups = 2
    /\ ru.sleeps = 1

----------------------------------------------------------------------------
\* The rename pass (renameContainersToConvention), as DeployService runs it on
\* the result of its final query.  A name is a sequence of tokens: the engine
\* reports <<"/", "proj-web-1">> for the container named proj-web-1.

MaxRenamed == 3       \* containers handed to the rename pass
MaxCreated == 2       \* distinct creation times (seconds) among them

ProjectName == "proj"
ServiceName == "web"

\* Container name templates: with and without .InstanceID, and one that does
\* not parse.
NameTemplates == {"{{.ProjectName}}-{{.ServiceName}}-{{.InstanceID}}",
                  "{{.ServiceName}}", "{{.ServiceName"}

\* Names the containers carry before the pass.
NamePool == {<<"/", "old1">>, <<"/", "proj-web-1">>, <<"/", "proj-web-2">>,
             <<"/", "proj-web-3">>, <<"/", "web">>}

\* template.Parse succeeds.
TemplateParses(tmpl) == tmpl # "{{.ServiceName"

\* tmpl.Execute on ContainerNameTemplateData.
Render(tmpl, data) ==
    IF tmpl = "{{.ServiceName}}" THEN <<data.ServiceName>>
    ELSE <<data.ProjectName \o "-" \o data.ServiceName \o "-" \o ToString(data.InstanceID)>>

\* Mutant of InstanceID: the loop index is used as it is.
InstanceID_ZeroBased(i) == i

\* renameContainersToConvention: instanceID := i + 1 for the loop index i.
InstanceID(i) == i + 1

\* strings.TrimPrefix
TrimPrefix(name, prefix) ==
    IF Len(name) > 0 /\ Head(name) = prefix THEN Tail(name) ELSE name

\* renameContainersToConvention: the current name of a container, its first
\* name without the leading slash, or the empty name when it has none.
CurrentName(c) == IF Len(c.Names) > 0 THEN TrimPrefix(c.Names[1], "/") ELSE <<>>

\* renameContainersToConvention: the name the container at loop index i gets.
NewName(tmpl, i) ==
    Render(tmpl, [ProjectName |-> ProjectName, ServiceName |-> ServiceName,
                  InstanceID |-> InstanceID(i)])

\* The engine refuses a name that another container carries.
NameInUse(eng, taken, id, newName) ==
    \/ <<"/">> \o newName \in taken
    \/ \E c \in DOMAIN eng : c # id /\ Len(eng[c].Names) > 0
                                    /\ eng[c].Names[1] = <<"/">> \o newName

\* ContainerRename
ContainerRename(eng, id, newName) == [eng EXCEPT ![id].Names = << <<"/">> \o newName >>]

\* Every container carries the name the template gives for an instance id that
\* is its place in some oldest-first order of the containers.
CorrectlyNamed(eng, tmpl) ==
    \E p \in Permutations1(Len(eng)) :
       /\ \A a, b \in DOMAIN eng : eng[a].Created < eng[b].Created => p[a] < p[b]
       /\ \A c \in DOMAIN eng :
            CurrentName(eng[c]) =
                Render(tmpl, [ProjectName |-> ProjectName, ServiceName |-> ServiceName,
                              InstanceID |-> p[c]])

\* The phases of DeployService are not running.
PhasesAtRest ==
    /\ containers = <<>>
    /\ input = [replicas |-> 1, parallelism |-> 1, order |-> "start-first",
                failureAction |-> "pause", maxFailureRatio |-> <<0, 1>>, delay |-> 0]
    /\ pc = "rest"
    /\ sd = [list |-> <<>>, idx |-> 1]
    /\ ru = [list |-> <<>>, i |-> 0, batch |-> <<>>, queue |-> <<>>,
             batches |-> 0, ups |-> 0, sleeps |-> 0, launched |-> 0, failedWorkers |-> 0]
    /\ output = [TotalUpdates |-> 0, Failures |-> 0]
    /\ su = [list |-> <<>>, i |-> 0, totalUpdates |-> 0, failures |-> 0,
             batchErr |-> <<>>, launched |-> 0, failedWorkers |-> 0]
    /\ workers = NoWorkers
    /\ result = "none"
    /\ faults = 0
    /\ log = <<>>
    /\ lastStop = NoStop
    /\ passed = {}
    /\ failed = {}
    /\ report = [expected |-> 0, actual |-> 0, failures |-> 0]

\* Running containers of the service with their names and creation times, in
\* the order the engine lists them; names are unique in the engine.
InitRename ==
    /\ \E n \in 0..MaxRenamed :
         \E names \in [1..n -> NamePool \cup {<<>>}],
            created \in [1..n -> 1..MaxCreated],
            tmpl \in NameTemplates,
            taken \in {{}, {<<"/", "proj-web-1">>}} :
           /\ \A a, b \in 1..n : (a # b /\ names[a] # <<>>) => names[a] # names[b]
           /\ \A a \in 1..n : names[a] \notin taken
           /\ rn = [pc |-> "final",
                    eng |-> [c \in 1..n |->
                               [Names |-> IF names[c] = <<>> THEN <<>> ELSE <<names[c]>>,
                                Created |-> created[c]]],
                    taken |-> taken,
                    tmpl |-> tmpl,
                    list |-> <<>>,
                    i |-> 0,
                    calls |-> <<>>,
                    wasCorrect |-> FALSE,
                    result |-> "none"]
    /\ PhasesAtRest
    /\ pj = NoProject
    /\ en = NoEntry
    /\ NoneAlone

\* The containers of eng by creation time, as sortContainersByCreationTime
\* leaves a list of them.
SortedByCreated(eng, list) ==
    sortContainersByCreationTime([c \in DOMAIN eng |-> [created |-> eng[c].Created]],
                                 list, FALSE)

\* DeployService, final query, and renameContainersToConvention up to its
\* loop: nothing to do for no container, the template is parsed, the list is
\* sorted oldest first.
RN_Begin ==
    /\ rn.pc = "final"
    /\ \E listed \in Permutations1(Len(rn.eng)) :
         IF Len(listed) = 0
         THEN rn' = [rn EXCEPT !.pc = "done", !.result = "ok"]
         ELSE IF ~TemplateParses(rn.tmpl)
         THEN rn' = [rn EXCEPT !.pc = "done", !.result = "err_template"]
         ELSE rn' = [rn EXCEPT !.pc = "loop",
                               !.list = SortedByCreated(rn.eng, listed),
                               !.wasCorrect = CorrectlyNamed(rn.eng, rn.tmpl)]
    /\ UNCHANGED <<phases, pj, en, hc, ls, cx>>

\* renameContainersToConvention: currentName != newName
NeedsRename(currentName, newName) == currentName # newName

\* renameContainersToConvention, one iteration of the loop: render the name,
\* rename the container when its current name differs; a rename error returns.
RN_Rename ==
    /\ rn.pc = "loop"
    /\ rn.i < Len(rn.list)
    /\ LET c == rn.list[rn.i + 1]
           newName == NewName(rn.tmpl, rn.i)
       IN  IF NeedsRename(CurrentName(rn.eng[c]), newName)
           THEN \E ok \in BOOLEAN :
                  /\ NameInUse(rn.eng, rn.taken, c, newName) => ~ok
                  /\ rn' = [rn EXCEPT
                              !.calls = Append(@, [id |-> c, name |-> newName, ok |-> ok]),
                              !.eng = IF ok THEN ContainerRename(@, c, newName) ELSE @,
                              !.i = IF ok THEN @ + 1 ELSE @,
                              !.pc = IF ok THEN "loop" ELSE "done",
                              !.result = IF ok THEN "none" ELSE "err_rename"]
           ELSE rn' = [rn EXCEPT !.i = @ + 1]
    /\ UNCHANGED <<phases, pj, en, hc, ls, cx>>

\* renameContainersToConvention returns nil and DeployService returns nil.
RN_Return ==
    /\ rn.pc = "loop"
    /\ rn.i >= Len(rn.list)
    /\ rn' = [rn EXCEPT !.pc = "done", !.result = "ok"]
    /\ UNCHANGED <<phases, pj, en, hc, ls, cx>>

NextRename ==
    \/ RN_Begin
    \/ RN_Rename
    \/ RN_Return

SpecRename == InitRename /\ [][NextRename]_vars

\* C11: when DeployService returns success, every surviving running container
\* is named as the template renders it for its 1-based place in an oldest-first
\* order, so the instance ids are 1..n without gap or duplicate.
C11_SurvivorsNamed ==
    (rn.pc = "done" /\ rn.result = "ok") => CorrectlyNamed(rn.eng, rn.tmpl)

\* C11 witness: three containers, two of them created in the same second, were
\* brought to their names with two renames, one needing none.
C11_Witness ==
    /\ rn.pc = "done"
    /\ rn.result = "ok"
    /\ Len(rn.eng) = 3
    /\ Len(rn.calls) = 2
    /\ \E a, b \in DOMAIN rn.eng : a # b /\ rn.eng[a].Created = rn.eng[b].Created

\* C12 as claimed: a pass over a correctly named set issues no rename call,
\* for every order in which the engine lists the containers.
C12_Original == (rn.pc # "none" /\ rn.wasCorrect) => Len(rn.calls) = 0

----------------------------------------------------------------------------
\* DeployService from its entry to its first engine query: the checks of its
\* input, the skip policy, the desired replicas and the update_config.  A
\* pointer field is <<>> when nil and <<v>> when it points to v.

\* The project of the entry: one service, web.
Services == {"web"}

\* parser.Parse of an image reference: whether it parses, and the namespace
\* and name of the repository without registry and tag.
ParseImage(image) ==
    CASE image = "postgres:14" -> [ok |-> TRUE, namespace |-> "", name |-> "postgres"]
      [] image = "nginx:alpine" -> [ok |-> TRUE, namespace |-> "", name |-> "nginx"]
      [] image = "myregistry.com/library/postgres:latest" ->
             [ok |-> TRUE, namespace |-> "library", name |-> "postgres"]
      [] image = "myapp/web:latest" -> [ok |-> TRUE, namespace |-> "myapp", name |-> "web"]
      [] OTHER -> [ok |-> FALSE, namespace |-> "", name |-> ""]

\* ShortName of a parsed image: namespace/name, library/name without namespace.
ShortName(parsed) ==
    (IF parsed.namespace = "" THEN "library" ELSE parsed.namespace) \o "/" \o parsed.name

Images == {"postgres:14", "nginx:alpine", "myregistry.com/library/postgres:latest",
           "myapp/web:latest", ""}

databaseImageRepositories ==
    {"clickhouse/clickhouse-server", "library/couchdb", "library/elasticsearch",
     "dokku/docker-grafana-graphite", "library/mariadb", "getmeili/meilisearch",
     "library/memcached", "library/mongo", "library/mysql", "library/nats",
     "omnisci/core-os-cpu", "library/postgres", "fanout/pushpin", "library/rabbitmq",
     "library/redis", "library/rethinkdb", "library/solr", "typesense/typesense"}

\* isDatabaseService: the image parses and its short name is in the list.
isDatabaseService(service) ==
    LET parsedImage == ParseImage(service.Image)
    IN  parsedImage.ok /\ ShortName(parsedImage) \in databaseImageRepositories

\* Mutant of shouldSkipService: a database service is skipped whether or not
\* skip-databases is requested.
shouldSkipService_Unasked(service, shouldSkipDatabases) == isDatabaseService(service)

\* shouldSkipService
shouldSkipService(service, shouldSkipDatabases) ==
    shouldSkipDatabases /\ isDatabaseService(service)

\* Mutant of Replicas: without override, deploy.replicas and scale there is
\* no replica to run.
Replicas_NoDefault(override, service) ==
    IF override > 0 THEN override
    ELSE IF service.Deploy # <<>> /\ service.Deploy[1].Replicas # <<>>
         THEN service.Deploy[1].Replicas[1]
    ELSE IF service.Scale # <<>> THEN service.Scale[1]
    ELSE 0

\* Mutant of Replicas: the first non-zero of the override, deploy.replicas
\* and scale, 1 when there is none.
Replicas_FirstNonZero(override, service) ==
    IF override > 0 THEN override
    ELSE IF service.Deploy # <<>> /\ service.Deploy[1].Replicas # <<>>
            /\ service.Deploy[1].Replicas[1] # 0
         THEN service.Deploy[1].Replicas[1]
    ELSE IF service.Scale # <<>> /\ service.Scale[1] # 0 THEN service.Scale[1]
    ELSE 1

\* DeployService: the desired replicas.
Replicas(override, service) ==
    IF override > 0 THEN override
    ELSE IF service.Deploy # <<>> /\ service.Deploy[1].Replicas # <<>>
         THEN service.Deploy[1].Replicas[1]
    ELSE IF service.Scale # <<>> THEN service.Scale[1]
    ELSE 1

\* DeployService: the update_config of the service, or the default one.
UpdateConfig(service) ==
    IF service.Deploy # <<>> /\ service.Deploy[1].UpdateConfig # <<>>
    THEN service.Deploy[1].UpdateConfig[1]
    ELSE [Parallelism |-> <<1>>, FailureAction |-> "pause", Order |-> "start-first"]

\* Mutant of FailureActionSupported: every failure_action is accepted.
FailureActionSupported_Any(failureAction) == TRUE

\* DeployService: failure_action is "" or "pause".
FailureActionSupported(failureAction) == failureAction = "" \/ failureAction = "pause"

\* DeployService: parallelism, 1 when not given.
Parallelism(updateConfig) ==
    IF updateConfig.Parallelism # <<>> THEN updateConfig.Parallelism[1] ELSE 1

\* DeployService: order, stop-first when not given.
Order(updateConfig) == IF updateConfig.Order # "" THEN updateConfig.Order ELSE "stop-first"

Pointers == {<<>>, <<0>>, <<2>>}

UpdateConfigs ==
    [Parallelism : Pointers, FailureAction : {"", "pause", "rollback"},
     Order : {"", "start-first"}]

DeployConfigs ==
    [Replicas : Pointers, UpdateConfig : {<<>>} \cup {<<u>> : u \in UpdateConfigs}]

\* The services DeployService is called on: at most one of the skip label, the
\* models field and the provider field is set.
ServiceConfigs ==
    {sv \in [Name : {"web"}, Image : Images,
             Labels : {<<>>, <<"true">>, <<"TRUE">>},
             Models : BOOLEAN, Provider : BOOLEAN,
             Deploy : {<<>>} \cup {<<d>> : d \in DeployConfigs},
             Scale : Pointers] :
        /\ ~(sv.Models /\ sv.Provider)
        /\ (sv.Models \/ sv.Provider) => sv.Labels = <<>>
        /\ (sv.Image \notin {"postgres:14", "nginx:alpine"}) =>
               (sv.Deploy = <<>> /\ sv.Scale = <<>>)}

InitEntry ==
    /\ en \in [in : [ComposeFile : {"", "docker-compose.yaml"},
                     ProjectName : {"", "proj"},
                     ServiceName : {"", "web", "db"},
                     Replicas : {0, 3},
                     SkipDatabases : BOOLEAN,
                     service : ServiceConfigs],
               pc : {"entry"},
               input : {[replicas |-> 0, parallelism |-> 0, order |-> "",
                         failureAction |-> ""]},
               calls : {<<>>},
               result : {"none"}]
    /\ (en.in.ComposeFile = "" \/ en.in.ProjectName = "" \/ en.in.ServiceName # "web")
           => (en.in.service.Deploy = <<>> /\ en.in.service.Scale = <<>>)
    /\ PhasesAtRest
    /\ rn = NoRename
    /\ pj = NoProject
    /\ NoneAlone

\* DeployService returns from its entry.
Leave(res) == en' = [en EXCEPT !.pc = "done", !.result = res]

\* DeployService: the compose file, the project name and the service name are
\* required and the service is one of the project.
EN_Validate ==
    /\ en.pc = "entry"
    /\ IF en.in.ComposeFile = "" THEN Leave("err_compose_file")
       ELSE IF en.in.ProjectName = "" THEN Leave("err_project_name")
       ELSE IF en.in.ServiceName = "" THEN Leave("err_service_name")
       ELSE IF en.in.ServiceName \notin Services THEN Leave("err_not_found")
       ELSE en' = [en EXCEPT !.pc = "skip"]
    /\ UNCHANGED <<phases, rn, pj, hc, ls, cx>>

\* DeployService: a service to skip returns nil.
EN_Skip ==
    /\ en.pc = "skip"
    /\ IF shouldSkipService(en.in.service, en.in.SkipDatabases)
       THEN Leave("ok")
       ELSE en' = [en EXCEPT !.pc = "resolve"]
    /\ UNCHANGED <<phases, rn, pj, hc, ls, cx>>

\* DeployService: replicas, update_config and its defaults; an unsupported
\* failure_action returns an error.
EN_Resolve ==
    /\ en.pc = "resolve"
    /\ LET updateConfig == UpdateConfig(en.in.service)
       IN  IF ~FailureActionSupported(updateConfig.FailureAction)
           THEN Leave("err_failure_action")
           ELSE en' = [en EXCEPT
                         !.pc = "query",
                         !.input = [replicas |-> Replicas(en.in.Replicas, en.in.service),
                                    parallelism |-> Parallelism(updateConfig),
                                    order |-> Order(updateConfig),
                                    failureAction |-> updateConfig.FailureAction]]
    /\ UNCHANGED <<phases, rn, pj, hc, ls, cx>>

\* DeployService: the first query of the running containers; the phases
\* follow.
EN_Query ==
    /\ en.pc = "query"
    /\ en' = [en EXCEPT !.pc = "phases", !.calls = Append(@, "list")]
    /\ UNCHANGED <<phases, rn, pj, hc, ls, cx>>

NextEntry ==
    \/ EN_Validate
    \/ EN_Skip
    \/ EN_Resolve
    \/ EN_Query

SpecEntry == InitEntry /\ [][NextEntry]_vars

----------------------------------------------------------------------------
\* Properties of the entry of DeployService

\* The value a pointer field gives, 0 when it is nil.
ValueOr0(pointer) == IF pointer = <<>> THEN 0 ELSE pointer[1]

DeployReplicas(service) == IF service.Deploy = <<>> THEN <<>> ELSE service.Deploy[1].Replicas

\* DeployService has resolved its inputs.
Resolved == en.pc \in {"query", "phases"}

\* C13 as claimed: the desired replicas are the first non-zero of the override,
\* deploy.replicas and scale, and 1 when all are absent or zero.
C13_Original ==
    Resolved =>
        en.input.replicas =
            (IF en.in.Replicas # 0 THEN en.in.Replicas
             ELSE IF ValueOr0(DeployReplicas(en.in.service)) # 0
                  THEN ValueOr0(DeployReplicas(en.in.service))
             ELSE IF ValueOr0(en.in.service.Scale) # 0 THEN ValueOr0(en.in.service.Scale)
             ELSE 1)

\* C13: the desired replicas are the override when it is positive, else
\* deploy.replicas when it is given (0 included), else scale when it is given
\* (0 included), else 1.
C13_FirstGiven ==
    Resolved =>
        /\ en.in.Replicas > 0 => en.input.replicas = en.in.Replicas
        /\ (en.in.Replicas = 0 /\ DeployReplicas(en.in.service) # <<>>) =>
               en.input.replicas = DeployReplicas(en.in.service)[1]
        /\ (en.in.Replicas = 0 /\ DeployReplicas(en.in.service) = <<>>
              /\ en.in.service.Scale # <<>>) =>
               en.input.replicas = en.in.service.Scale[1]
        /\ (en.in.Replicas = 0 /\ DeployReplicas(en.in.service) = <<>>
              /\ en.in.service.Scale = <<>>) =>
               en.input.replicas = 1

\* C13 witness: deploy.replicas 0 with scale 2 and no override resolved to 0.
C13_Witness ==
    /\ Resolved
    /\ en.in.Replicas = 0
    /\ DeployReplicas(en.in.service) = <<0>>
    /\ en.in.service.Scale = <<2>>
    /\ en.input.replicas = 0

\* Neither an override nor deploy.replicas nor scale is given.
NoReplicasDefined ==
    /\ en.pc # "none"
    /\ en.in.Replicas = 0
    /\ DeployReplicas(en.in.service) = <<>>
    /\ en.in.service.Scale = <<>>

LeftForOtherReason ==
    \/ en.in.ComposeFile = "" \/ en.in.ProjectName = "" \/ en.in.ServiceName \notin Services
    \/ shouldSkipService(en.in.service, en.in.SkipDatabases)
    \/ ~FailureActionSupported(UpdateConfig(en.in.service).FailureAction)

MarkedToSkip(service) ==
    service.Models \/ service.Provider \/ service.Labels = <<"true">>

\* C15 as claimed: a model service, a provider service or a service with the
\* skip label "true" is skipped: success with no engine call.
C15_Original ==
    (en.pc # "none" /\ en.in.ComposeFile # "" /\ en.in.ProjectName # ""
       /\ en.in.ServiceName \in Services /\ MarkedToSkip(en.in.service)) =>
        /\ en.calls = <<>>
        /\ ~Resolved
        /\ en.pc = "done" => en.result = "ok"

\* C16 (step): at the skip check a database service is skipped when
\* skip-databases is requested, and when it is not requested the service goes
\* the way the same service with another image goes.
C16_Step ==
    en.pc = "skip" =>
        /\ (en.in.SkipDatabases /\ isDatabaseService(en.in.service)) =>
               (en'.pc = "done" /\ en'.result = "ok" /\ en'.calls = <<>>)
        /\ ~en.in.SkipDatabases =>
               en'.pc = IF shouldSkipService([en.in.service EXCEPT !.Image = "nginx:alpine"],
                                             FALSE)
                        THEN "done" ELSE "resolve"

\* C16: with skip-databases a service whose image short name is in the
\* database set returns success with no engine mutation; without it the same
\* service is reconciled like any other.
C16_SkipDatabases ==
    /\ [] ((en.pc = "done" /\ en.result = "ok") => en.calls = <<>>)
    /\ [][C16_Step]_vars

\* C16 witness: with skip-databases a postgres image of a private registry
\* was skipped.
C16_Witness ==
    /\ en.pc = "done"
    /\ en.result = "ok"
    /\ en.in.SkipDatabases
    /\ en.in.service.Image = "myregistry.com/library/postgres:latest"

\* The failure_action the service asks for is neither "" nor "pause".
AsksUnsupportedFailureAction ==
    /\ en.pc # "none"
    /\ en.in.service.Deploy # <<>>
    /\ en.in.service.Deploy[1].UpdateConfig # <<>>
    /\ en.in.service.Deploy[1].UpdateConfig[1].FailureAction \notin {"", "pause"}

----------------------------------------------------------------------------
\* DeployProject: web first when it depends on nothing, then the services in
\* dependency order.  A call of DeployService is one step here: it returns nil
\* or an error (its own steps are those of the specifications above).

ServiceNames == {"web", "api", "db", "worker"}

\* The sequences that list every element of S once.
Orderings(S) ==
    {o \in [1..Cardinality(S) -> S] : \A a, b \in 1..Cardinality(S) : a # b => o[a] # o[b]}

\* compose.InDependencyOrder: the orders in which it may visit the services,
\* each service after the services it depends on.
DependencyOrders(services, dependsOn) ==
    {o \in Orderings(services) :
        \A a, b \in 1..Len(o) : o[b] \in dependsOn[o[a]] => b < a}

\* Mutant of SkipWeb: web is never left out of the dependency order.
SkipWeb_Never(services, dependsOn) == FALSE

\* DeployProject: skipWeb after the first loop: true unless web is a service
\* with dependencies.
SkipWeb(services, dependsOn) == ~("web" \in services /\ dependsOn["web"] # {})

\* DeployProject: the callback of InDependencyOrder leaves web out when skipWeb.
DependencyOrder(visits, skipWeb) ==
    SelectSeq(visits, LAMBDA name : ~(name = "web" /\ skipWeb))

\* Mutant of Aborts: the error of a service is passed over.
Aborts_Never(err) == FALSE

\* DeployProject: if err != nil { return err }
Aborts(err) == err

\* A project: services whose dependencies are services of the project, without
\* a dependency cycle.
InitProject ==
    /\ \E services \in SUBSET ServiceNames :
         \E dependsOn \in [services -> SUBSET services] :
           /\ DependencyOrders(services, dependsOn) # {}
           /\ pj = [pc |-> "web", services |-> services, dependsOn |-> dependsOn,
                    skipWeb |-> TRUE, dependencyOrder |-> <<>>, at |-> 1,
                    deployed |-> <<>>, result |-> "none"]
    /\ PhasesAtRest
    /\ rn = NoRename
    /\ en = NoEntry
    /\ NoneAlone

\* The record of a DeployService call.
Deployed(name, err) == [name |-> name, err |-> err]

\* DeployProject, first loop: web with dependencies clears skipWeb; web
\* without is deployed, and its error returned.
PJ_Web ==
    /\ pj.pc = "web"
    /\ IF "web" \in pj.services /\ pj.dependsOn["web"] = {}
       THEN \E err \in BOOLEAN :
              pj' = [pj EXCEPT !.deployed = Append(@, Deployed("web", err)),
                               !.skipWeb = SkipWeb(pj.services, pj.dependsOn),
                               !.pc = IF Aborts(err) THEN "done" ELSE "order",
                               !.result = IF Aborts(err) THEN "err" ELSE "none"]
       ELSE pj' = [pj EXCEPT !.skipWeb = SkipWeb(pj.services, pj.dependsOn),
                             !.pc = "order"]
    /\ UNCHANGED <<phases, rn, en, hc, ls, cx>>

\* DeployProject: the names InDependencyOrder visits, web left out when it was
\* deployed in the first loop.
PJ_Order ==
    /\ pj.pc = "order"
    /\ \E visits \in DependencyOrders(pj.services, pj.dependsOn) :
         pj' = [pj EXCEPT !.dependencyOrder = DependencyOrder(visits, pj.skipWeb),
                          !.pc = "deploy"]
    /\ UNCHANGED <<phases, rn, en, hc, ls, cx>>

\* DeployProject, second loop: the next service of dependencyOrder is deployed,
\* and its error returned.
PJ_Deploy ==
    /\ pj.pc = "deploy"
    /\ pj.at <= Len(pj.dependencyOrder)
    /\ \E err \in BOOLEAN :
         pj' = [pj EXCEPT !.deployed = Append(@, Deployed(pj.dependencyOrder[pj.at], err)),
                          !.at = @ + 1,
                          !.pc = IF Aborts(err) THEN "done" ELSE "deploy",
                          !.result = IF Aborts(err) THEN "err" ELSE "none"]
    /\ UNCHANGED <<phases, rn, en, hc, ls, cx>>

\* DeployProject returns nil.
PJ_Return ==
    /\ pj.pc = "deploy"
    /\ pj.at > Len(pj.dependencyOrder)
    /\ pj' = [pj EXCEPT !.pc = "done", !.result = "ok"]
    /\ UNCHANGED <<phases, rn, en, hc, ls, cx>>

NextProject ==
    \/ PJ_Web
    \/ PJ_Order
    \/ PJ_Deploy
    \/ PJ_Return

SpecProject == InitProject /\ [][NextProject]_vars

\* The place of a service among the DeployService calls made, 0 when it has
\* none.
Place(name) ==
    IF \E k \in 1..Len(pj.deployed) : pj.deployed[k].name = name
    THEN CHOOSE k \in 1..Len(pj.deployed) : pj.deployed[k].name = name
    ELSE 0

\* C18: web is reconciled before every other service when it exists and
\* depends on nothing; every service is reconciled after the services it
\* depends on; no service is reconciled twice, and a run without errors
\* reconciles every service of the project.
C18_VisitOrder ==
    (pj.pc # "none") =>
        /\ \A a, b \in 1..Len(pj.deployed) :
             a # b => pj.deployed[a].name # pj.deployed[b].name
        /\ \A k \in 1..Len(pj.deployed) :
             /\ pj.deployed[k].name \in pj.services
             /\ \A d \in pj.dependsOn[pj.deployed[k].name] : Place(d) # 0 /\ Place(d) < k
        /\ ("web" \in pj.services /\ pj.dependsOn["web"] = {} /\ Len(pj.deployed) > 0) =>
               pj.deployed[1].name = "web"
        /\ (pj.pc = "done" /\ pj.result = "ok") =>
               {pj.deployed[k].name : k \in 1..Len(pj.deployed)} = pj.services

\* C18 witness: web, on which api depends, went first, then db and api, which
\* depends on db too, and the run ended without error.
C18_Witness ==
    /\ pj.pc = "done"
    /\ pj.result = "ok"
    /\ pj.services = {"web", "api", "db"}
    /\ pj.dependsOn["web"] = {}
    /\ pj.dependsOn["api"] = {"web", "db"}
    /\ Len(pj.deployed) = 3

\* C19 (step): when a DeployService call returns an error, DeployProject
\* returns it at once.
C19_Step ==
    (Len(pj'.deployed) > Len(pj.deployed) /\ pj'.deployed[Len(pj'.deployed)].err) =>
        (pj'.pc = "done" /\ pj'.result = "err")

\* C19 (state): the failing service is the last one DeployService was called
\* for.
C19_NothingAfterError ==
    (pj.pc # "none") =>
        /\ \A k \in 1..Len(pj.deployed) : pj.deployed[k].err => k = Len(pj.deployed)
        /\ pj.result = "err" =>
               (pj.pc = "done" /\ Len(pj.deployed) > 0 /\ pj.deployed[Len(pj.deployed)].err)

\* C19: when the reconciliation of a service returns an error, DeployProject
\* returns that error and reconciles no later service.
C19_ErrorAborts == [] C19_NothingAfterError /\ [][C19_Step]_vars

\* C19 witness: the second of three services failed and the third was not
\* reconciled.
C19_Witness ==
    /\ pj.pc = "done"
    /\ pj.result = "err"
    /\ Cardinality(pj.services) = 3
    /\ Len(pj.deployed) = 2
    /\ ~pj.deployed[1].err
    /\ pj.deployed[2].err

----------------------------------------------------------------------------
\* Stop-first: compose up after the stops

\* The terminate calls on the old containers of the current stop-first batch.
StopCallsOfBatch ==
    {k \in 1..Len(log) : log[k].phase = "stop-old" /\ log[k].id \in Range(ru.batch)}

\* C21 (step): a stop-first batch calls compose up only when terminate has
\* returned for every old container of the batch and none failed; when one
\* failed the batch returns an error with no compose up and no health wait.
C21_Step ==
    (pc = "st_stop" /\ pc' # "st_stop") =>
        /\ \A c \in Range(ru.batch) : \E k \in StopCallsOfBatch : log[k].id = c
        /\ \A w \in Workers : workers[w].pc \in {"idle", "stop_ok", "stop_err"}
        /\ IF \E k \in StopCallsOfBatch : ~log[k].ok
           THEN /\ result' = "err_stop"
                /\ pc' = "done"
                /\ ru'.ups = ru.ups
                /\ workers' = NoWorkers
                /\ passed' = passed /\ failed' = failed
           ELSE ru'.ups = ru.ups + 1

\* C21 (state): while the old containers of a stop-first batch are stopped no
\* compose up of the batch has run and no container is health-checked, and
\* the same holds for good after the stop error.
C21_NoUpBeforeStops ==
    (pc = "st_stop" \/ result = "err_stop") =>
        /\ ru.ups = ru.batches - 1
        /\ \A w \in Workers : workers[w].pc \notin {"begin", "health", "cleanup"}

\* C21: in a stop-first batch compose up is invoked only after the terminate
\* of every old container of the batch has completed, and if one of them fails
\* the batch returns an error without compose up and without a health wait.
C21_StopsBeforeUp == [] C21_NoUpBeforeStops /\ [][C21_Step]_vars

\* C21 witness: of a stop-first batch of two, one terminate succeeded and one
\* failed, and the batch returned the error before any compose up.
C21_Witness ==
    /\ result = "err_stop"
    /\ Len(ru.batch) = 2
    /\ ru.ups = 0
    /\ \E k \in StopCallsOfBatch : log[k].ok
    /\ \E k \in StopCallsOfBatch : ~log[k].ok

----------------------------------------------------------------------------
\* Lists of containers: the cut to the desired count before rolling update
\* and the sort by creation time, on lists in any listing order.

\* The longest list drawn in full, with every choice of creation times.
MaxListed == 3

\* slices.SortFunc: up to this length the sort is an insertion sort.
InsertionSortMax == 12

\* The arrangements of the containers in S that are in order of creation
\* time: containers of equal creation time in either order.
RECURSIVE Arrangements(_, _, _)
Arrangements(eng, S, newestFirst) ==
    IF S = {} THEN {<<>>}
    ELSE UNION {{<<x>> \o t : t \in Arrangements(eng, S \ {x}, newestFirst)} :
                  x \in {y \in S : \A z \in S : ~Before(eng, z, y, newestFirst)}}

\* slices.SortFunc with the comparison of sortContainersByCreationTime: the
\* lists it can return.  It is not guaranteed to be stable: a list longer
\* than InsertionSortMax goes through a quicksort whose partitioning swaps equal
\* elements, and comes back in one of the sorted arrangements.
SortFunc(eng, list, newestFirst) ==
    IF Len(list) <= InsertionSortMax
    THEN {sortContainersByCreationTime(eng, list, newestFirst)}
    ELSE Arrangements(eng, Range(list), newestFirst)

\* The engine with n running containers of the given creation times, listed
\* in the order 1..n.
Listed(n, created) ==
    [k \in 1..n |-> [status |-> "running", created |-> created[k]]]

\* A list of running containers as the engine returns it: a short list with
\* any creation times, or a list one longer than InsertionSortMax of which two
\* containers were created in the same second.
InitLists ==
    /\ \E replicas \in 1..MaxReplicas, newestFirst \in BOOLEAN :
         \E eng \in
              {Listed(n, created) : <<n, created>> \in
                 UNION {{<<m, c>> : c \in [1..m -> 1..MaxListed]} : m \in 0..MaxListed}}
              \cup
              {Listed(InsertionSortMax + 1,
                      [k \in 1..(InsertionSortMax + 1) |-> IF k = p[1] THEN p[2] ELSE k]) :
                 p \in {q \in (1..(InsertionSortMax + 1)) \X (1..(InsertionSortMax + 1)) :
                          q[1] # q[2]}} :
           ls = [pc |-> "listed", eng |-> eng, replicas |-> replicas,
                 newestFirst |-> newestFirst, out |-> <<>>]
    /\ PhasesAtRest
    /\ rn = NoRename
    /\ pj = NoProject
    /\ en = NoEntry
    /\ hc = NoHealth
    /\ cx = NoCancel

\* DeployService, second query: the list for rolling update.
LS_Cut ==
    /\ ls.pc = "listed"
    /\ ls' = [ls EXCEPT !.pc = "cut",
                        !.out = ContainersToUpdate(ls.eng,
                                    composeContainers(ls.eng, "running"), ls.replicas)]
    /\ UNCHANGED <<phases, rn, pj, en, hc, cx>>

\* sortContainersByCreationTime on the whole list.
LS_Sort ==
    /\ ls.pc = "listed"
    /\ \E out \in SortFunc(ls.eng, composeContainers(ls.eng, "running"), ls.newestFirst) :
         ls' = [ls EXCEPT !.pc = "sorted", !.out = out]
    /\ UNCHANGED <<phases, rn, pj, en, hc, cx>>

NextLists == LS_Cut \/ LS_Sort

SpecLists == InitLists /\ [][NextLists]_vars

\* C27 as claimed: sorting by creation time is stable: containers of equal
\* creation time keep their input order, for any list, in either direction.
C27_Original ==
    ls.pc = "sorted" =>
        \A a, b \in 1..Len(ls.out) :
            (a < b /\ ls.eng[ls.out[a]].created = ls.eng[ls.out[b]].created)
                => ls.out[a] < ls.out[b]

\* C29 as claimed: the list handed to rolling update holds the oldest
\* min(d, running) running containers, for every listing order: none left
\* out is older than one handed over.
C29_Original ==
    ls.pc = "cut" =>
        /\ Len(ls.out) = Min(ls.replicas, Len(ls.eng))
        /\ \A a \in Range(ls.out), b \in (1..Len(ls.eng)) \ Range(ls.out) :
               ls.eng[a].created <= ls.eng[b].created

----------------------------------------------------------------------------
\* The order of the phases of DeployService

\* The place of a position of DeployService in the order of its phases.
PhaseOf(p) ==
    CASE p = "start" -> 0
      [] p = "scale_down" -> 1
      [] p = "refresh" -> 2
      [] p \in {"ru_loop", "batch", "st_stop"} -> 3
      [] p = "after_ru" -> 4
      [] p \in {"su_loop", "su_batch"} -> 5
      [] p = "final" -> 6
      [] OTHER -> 7

\* The running containers as the engine lists them now.
RunningNow == composeContainers(containers, "running")

\* C28 (step): the phases follow one another and never go back; each is
\* entered only from the decision before it, taken on the running set as the
\* engine lists it at that moment: scale-down exactly when more than d run,
\* rolling update exactly when the to-update set is not empty, scale-up only
\* when fewer than d run after rolling update has returned.
C28_Step ==
    /\ PhaseOf(pc') >= PhaseOf(pc)
    /\ (PhaseOf(pc') = 1 /\ PhaseOf(pc) # 1) => pc = "start"
    /\ (pc = "start" /\ pc' # pc) =>
           (pc' = "scale_down" <=> Len(RunningNow) > input.replicas)
    /\ (PhaseOf(pc') = 3 /\ PhaseOf(pc) # 3) => pc = "refresh"
    /\ (pc = "refresh" /\ pc' # pc) =>
           /\ sd.idx > Len(sd.list)
           /\ pc' = "ru_loop" <=>
                  Len(ContainersToUpdate(containers, RunningNow, input.replicas)) > 0
    /\ (PhaseOf(pc') = 5 /\ PhaseOf(pc) # 5) => pc = "after_ru"
    /\ (pc = "after_ru" /\ pc' # pc) =>
           IF Len(RunningNow) < input.replicas
           THEN pc' \in {"su_loop", "final", "done"}
           ELSE pc' = "final" /\ containers' = containers /\ result' = result

\* C28 (state): while scale-down runs no rolling-update action has happened,
\* until rolling update has returned no scale-up action has, and in the order
\* of the terminate calls those of scale-down come before all others.
C28_OneAtATime ==
    /\ PhaseOf(pc) <= 2 => (ru.batches = 0 /\ ru.ups = 0 /\ passed = {} /\ failed = {})
    /\ PhaseOf(pc) <= 4 => (su.list = <<>> /\ su.totalUpdates = 0)
    /\ \A j, k \in 1..Len(log) :
           (j < k /\ log[k].phase = "scale-down") => log[j].phase = "scale-down"

\* C28: within one DeployService run the phases are sequential and
\* conditional: scale-down runs only when more than d containers run and is
\* over before any rolling-update action, rolling update runs only on a
\* to-update set that is not empty, scale-up runs only when fewer than d run
\* after rolling update has returned, each decided on a fresh query.
C28_PhasesInOrder == [] C28_OneAtATime /\ [][C28_Step]_vars

\* C28 witness: one run scaled down, ran a rolling update and then scaled up.
C28_Witness ==
    /\ pc = "done"
    /\ \E k \in 1..Len(log) : log[k].phase = "scale-down"
    /\ ru.batches > 0
    /\ su.totalUpdates > 0

----------------------------------------------------------------------------
\* The rename pass comes last

\* C30 (step): renameContainersToConvention is called only by the step after
\* the final query, when no phase has returned an error, on the containers
\* that run then; no other step of DeployService renames.
C30_Step ==
    rn' # rn =>
        /\ pc = "final" /\ pc' = "done"
        /\ result = "none"
        /\ rn = NoRename
        /\ rn' = RenameCalled(RunningNow)

\* C30 (state): while the phases run, and after one of them has returned an
\* error, the rename pass has not been called.
C30_NoRenameYet ==
    (pc # "done" \/ result \notin {"ok", "err_rename"}) => rn = NoRename

\* C30: no container is renamed before the final rename pass, and the pass
\* runs only when scale-down, rolling update and scale-up have returned
\* without error: a reconciliation that aborts in a phase renames nothing.
C30_RenameLast == [] C30_NoRenameYet /\ [][C30_Step]_vars

\* C30 witness: a rolling update, paused after one compose up, has aborted the
\* reconciliation with containers still running, and nothing was renamed.
C30_Witness ==
    /\ result = "err_pause"
    /\ ru.ups > 0
    /\ Len(RunningNow) > 0
    /\ rn = NoRename

----------------------------------------------------------------------------
\* waitForHealthcheck on one container: the engine-health stage, a loop over
\* ticks up to a deadline, and then the host script (runScript).  Time is
\* counted in milliseconds.

\* The longest monitor interval drawn.
MaxMonitor == 2

\* How late after its interval a tick can be read.
MaxLate == 1

\* runScript: the length of ContainerShortID.
ShortIDLen == 12

\* The lengths of the container ids: "test-id" and a long id.
IDLens == {7, 20}

\* The host scripts: none, one that is a template, one that does not parse.
Scripts == {"", "exit 1", "{{"}

\* template.Parse of a script.
ScriptParses(script) == script # "{{"

\* What the executor wrote to one stream, character by character.
Streams == {<<>>, <<"\n">>, <<" ", "o", "u", "t", "\n">>}

\* unicode.IsSpace on the characters of the streams.
IsSpace(c) == c \in {" ", "\n", "\t"}

\* strings.TrimSpace
TrimSpace(s) ==
    LET solid == {k \in 1..Len(s) : ~IsSpace(s[k])}
    IN  IF solid = {} THEN <<>>
        ELSE SubSeq(s, CHOOSE k \in solid : \A j \in solid : k <= j,
                       CHOOSE k \in solid : \A j \in solid : k >= j)

\* What ContainerInspect reports of the container: State.Health (nil or with
\* a status) and State.Running.
ContainerStates ==
    [hasHealth : BOOLEAN, running : BOOLEAN,
     status : {"starting", "healthy", "unhealthy", "none"}]

\* No container has been inspected.
NotSeen == [err |-> FALSE, hasHealth |-> FALSE, running |-> FALSE, status |-> ""]

\* The executor has not been invoked.
NotRun == [failed |-> FALSE, stdout |-> <<>>, stderr |-> <<>>]

\* waitForDockerHealthCheck: a monitor of 0 counts as one millisecond.
Monitor(monitor) == IF monitor = 0 THEN 1 ELSE monitor

\* waitForDockerHealthCheck: deadline
Deadline(now, monitor) == now + 2 * Monitor(monitor)

\* Mutant of TimedOut: the deadline is not looked at.
TimedOut_Never(now, deadline) == FALSE

\* waitForDockerHealthCheck: time.Now().After(deadline)
TimedOut(now, deadline) == now > deadline

\* Mutant of HealthVerdict: the health status is not looked at, a running
\* container passes.
HealthVerdict_RunningOnly(st) == IF st.running THEN "ok" ELSE "not_running"

\* waitForDockerHealthCheck: what the inspected state means: the wait
\* returns nil ("ok"), returns an error, or goes on ("wait").
HealthVerdict(st) ==
    IF ~st.hasHealth
    THEN IF st.running THEN "ok" ELSE "not_running"
    ELSE CASE st.status = "healthy" -> "ok"
           [] st.status = "unhealthy" -> "unhealthy"
           [] st.status = "starting" -> "wait"
           [] OTHER -> "wait"

\* Mutant of RunsScript: the script stage runs whatever the engine stage
\* returned.
RunsScript_Always(err) == TRUE

\* waitForHealthcheck: the script stage runs when the engine stage returned nil.
RunsScript(err) == err = "ok"

\* The calls of waitForHealthcheck.
InitHealth ==
    /\ hc \in [pc : {"entry"},
               in : [hasClient : BOOLEAN, hasExecutor : BOOLEAN,
                     Monitor : 0..MaxMonitor, idLen : IDLens, script : Scripts],
               now : {0}, deadline : {0}, cancelled : {FALSE},
               ticks : {0}, inspects : {0}, execs : {0},
               seen : {NotSeen}, ran : {NotRun},
               engine : {"none"}, script : {"none"}, result : {"none"},
               cause : {""}, output : {<<>>}]
    /\ PhasesAtRest
    /\ rn = NoRename
    /\ pj = NoProject
    /\ en = NoEntry
    /\ ls = NoList
    /\ cx = NoCancel

\* waitForDockerHealthCheck returns err to waitForHealthcheck, which returns
\* it when it is an error and else goes on to the script.
EngineReturns(h, err) ==
    IF RunsScript(err)
    THEN [h EXCEPT !.engine = err, !.pc = "script"]
    ELSE [h EXCEPT !.engine = err, !.pc = "done", !.result = err]

\* waitForHealthcheck up to the loop: client and executor are required; the
\* deadline is read off the clock.
HC_Enter ==
    /\ hc.pc = "entry"
    /\ hc' = IF ~hc.in.hasClient
             THEN [hc EXCEPT !.pc = "done", !.result = "err_client"]
             ELSE IF ~hc.in.hasExecutor
             THEN [hc EXCEPT !.pc = "done", !.result = "err_executor"]
             ELSE [hc EXCEPT !.pc = "wait",
                             !.deadline = Deadline(hc.now, hc.in.Monitor)]
    /\ UNCHANGED <<phases, rn, pj, en, ls, cx>>

\* The ambient context is cancelled.
HC_Cancelled ==
    /\ hc.pc \in {"wait", "script"}
    /\ ~hc.cancelled
    /\ hc' = [hc EXCEPT !.cancelled = TRUE]
    /\ UNCHANGED <<phases, rn, pj, en, ls, cx>>

\* waitForDockerHealthCheck, case <-ctx.Done()
HC_Done ==
    /\ hc.pc = "wait"
    /\ hc.cancelled
    /\ hc' = EngineReturns(hc, "cancelled")
    /\ UNCHANGED <<phases, rn, pj, en, ls, cx>>

\* waitForDockerHealthCheck, case <-tickerCh: past the deadline the wait times
\* out; else the container is inspected and its state decides.  An inspect
\* under a cancelled context fails.
HC_Tick ==
    /\ hc.pc = "wait"
    /\ \E late \in 0..MaxLate :
         LET now == hc.now + Monitor(hc.in.Monitor) + late
             h == [hc EXCEPT !.now = now, !.ticks = @ + 1]
         IN  IF TimedOut(now, hc.deadline)
             THEN hc' = EngineReturns(h, "timeout")
             ELSE \/ hc' = EngineReturns(
                             [h EXCEPT !.inspects = @ + 1, !.seen = [NotSeen EXCEPT !.err = TRUE]],
                             "err_inspect")
                  \/ /\ ~hc.cancelled
                     /\ \E st \in ContainerStates :
                          LET g == [h EXCEPT !.inspects = @ + 1,
                                             !.seen = [err |-> FALSE,
                                                       hasHealth |-> st.hasHealth,
                                                       running |-> st.running,
                                                       status |-> st.status]]
                          IN  hc' = IF HealthVerdict(st) = "wait" THEN g
                                    ELSE EngineReturns(g, HealthVerdict(st))
    /\ UNCHANGED <<phases, rn, pj, en, ls, cx>>

\* runScript returns err to waitForHealthcheck, which returns it.
ScriptReturns(h, err) == [h EXCEPT !.script = err, !.result = err, !.pc = "done"]

\* waitForScriptHealthcheck, the whole of runScript: nothing to do for an
\* empty script; else parse the template, inspect for the IP, cut the short id
\* (a slice of 12 bytes: an index out of range on a shorter id), write the
\* file, invoke the executor and wrap its error with the trimmed output.
HC_Script ==
    /\ hc.pc = "script"
    /\ IF hc.in.script = ""
       THEN hc' = ScriptReturns(hc, "ok")
       ELSE IF ~ScriptParses(hc.in.script)
       THEN hc' = ScriptReturns(hc, "err_template")
       ELSE \/ hc' = ScriptReturns([hc EXCEPT !.inspects = @ + 1], "err_ip")
            \/ /\ ~hc.cancelled
               /\ LET h == [hc EXCEPT !.inspects = @ + 1]
                  IN  IF hc.in.idLen < ShortIDLen
                      THEN hc' = ScriptReturns(h, "panic")
                      ELSE \/ hc' = ScriptReturns(h, "err_file")
                           \/ \E out \in Streams, err \in Streams, fails \in BOOLEAN :
                                LET g == [h EXCEPT !.execs = @ + 1,
                                                   !.ran = [failed |-> fails,
                                                            stdout |-> out,
                                                            stderr |-> err]]
                                IN  hc' = IF fails
                                          THEN ScriptReturns(
                                                 [g EXCEPT !.cause = "exit status 1",
                                                           !.output = TrimSpace(out \o err)],
                                                 "err_script")
                                          ELSE ScriptReturns(g, "ok")
    /\ UNCHANGED <<phases, rn, pj, en, ls, cx>>

NextHealth == HC_Enter \/ HC_Cancelled \/ HC_Done \/ HC_Tick \/ HC_Script

SpecHealth == InitHealth /\ [][NextHealth]_vars

\* Ticks keep arriving and time advances.
SpecHealthFair == SpecHealth /\ WF_vars(HC_Tick)

\* A tick has been read in this step.
Ticked == hc.pc = "wait" /\ hc'.ticks = hc.ticks + 1

\* C22 (step): on a tick after the deadline the engine-health stage fails with
\* a timeout and does not inspect; on a tick up to the deadline it inspects
\* once, and of a container without health config it succeeds when the
\* container runs and fails with 'not running' when not, of one with health
\* config it succeeds on healthy, fails on unhealthy and waits for the next tick
\* on starting and on any other status.
C22_Step ==
    Ticked =>
        IF hc'.now > hc.deadline
        THEN /\ hc'.engine = "timeout" /\ hc'.result = "timeout" /\ hc'.pc = "done"
             /\ hc'.inspects = hc.inspects
        ELSE /\ hc'.inspects = hc.inspects + 1
             /\ IF hc'.seen.err
                THEN hc'.engine = "err_inspect" /\ hc'.pc = "done"
                ELSE IF ~hc'.seen.hasHealth
                THEN IF hc'.seen.running
                     THEN hc'.engine = "ok" /\ hc'.pc = "script"
                     ELSE hc'.engine = "not_running" /\ hc'.pc = "done"
                ELSE CASE hc'.seen.status = "healthy" ->
                              hc'.engine = "ok" /\ hc'.pc = "script"
                       [] hc'.seen.status = "unhealthy" ->
                              hc'.engine = "unhealthy" /\ hc'.pc = "done"
                       [] OTHER ->
                              hc'.engine = "none" /\ hc'.pc = "wait"

\* C22: what a tick of the engine-health stage does, by the deadline and by
\* the state of the container.
C22_TickDecides == [][C22_Step]_vars

\* C22 witness: a container with health config was starting at the first tick
\* and healthy at the second, and the engine-health stage succeeded.
C22_Witness ==
    /\ hc.pc = "script"
    /\ hc.ticks = 2 /\ hc.inspects = 2
    /\ hc.seen.hasHealth /\ hc.seen.status = "healthy" /\ ~hc.seen.running
    /\ hc.engine = "ok"

\* C23 (state): the host script has run, or its executor was invoked, only
\* when the engine-health stage succeeded; a wait whose engine-health stage
\* failed, timed out or was cancelled has failed with that error; a wait
\* whose script did not succeed has failed.
C23_ScriptAfterEngine ==
    /\ (hc.pc = "script" \/ hc.script # "none" \/ hc.execs > 0) => hc.engine = "ok"
    /\ (hc.pc = "done" /\ hc.engine \notin {"none", "ok"}) =>
           /\ hc.result = hc.engine
           /\ hc.script = "none" /\ hc.execs = 0
    /\ (hc.pc = "done" /\ hc.engine = "ok") => hc.result = hc.script
    /\ hc.result = "ok" => (hc.engine = "ok" /\ hc.script = "ok")

\* C23: the host health script runs only after the engine-health stage of the
\* container has succeeded, and the wait fails when either stage fails.
C23_EngineThenScript == [] C23_ScriptAfterEngine

\* C23 witness: the engine-health stage succeeded, the script was executed
\* and failed, and the wait failed.
C23_Witness ==
    /\ hc.pc = "done"
    /\ hc.engine = "ok"
    /\ hc.execs = 1 /\ hc.ran.failed
    /\ hc.result = "err_script"

\* C24 (state): while the engine-health stage waits, no tick later than the
\* deadline has been read.
C24_NoTickPastDeadline == hc.pc = "wait" => hc.now <= hc.deadline

\* The engine-health stage has returned.
EngineReturned == hc.pc \in {"script", "done"}

\* C24: the engine-health stage always returns: with ticks arriving, a wait
\* whose container stays in a status that is not final fails with a timeout
\* at the first tick after the deadline of twice the monitor interval.
C24_AlwaysReturns ==
    /\ [] C24_NoTickPastDeadline
    /\ (hc.pc = "wait") ~> EngineReturned

\* C24 witness: the container was starting at two ticks, and the third tick,
\* the first after the deadline, timed the wait out.
C24_Witness ==
    /\ hc.result = "timeout"
    /\ hc.ticks = 3 /\ hc.inspects = 2
    /\ hc.seen.status = "starting"
    /\ hc.now > hc.deadline

\* C26 as claimed: runScript with a script that is not empty, for every
\* container id, does not crash, and when the executor fails returns an error
\* with the executor's error and the trimmed output of both streams; with an
\* empty script it returns nil without an inspect or an executor call.
C26_Original ==
    hc.script # "none" =>
        /\ hc.script # "panic"
        /\ hc.ran.failed =>
               /\ hc.script = "err_script"
               /\ hc.cause = "exit status 1"
               /\ hc.output = TrimSpace(hc.ran.stdout \o hc.ran.stderr)
        /\ hc.in.script = "" =>
               (hc.script = "ok" /\ hc.execs = 0 /\ hc.inspects = hc.ticks)

----------------------------------------------------------------------------
\* The batch loops of rollingUpdateContainers and scaleUpContainers under a
\* context that is cancelled at some moment.  A batch is one step: its engine
\* calls see the context as it is when the batch starts.

\* The most containers a loop goes through.
MaxBatched == 3

\* The loops: rolling update in its two orders, and scale-up.
Loops == {"start-first", "stop-first", "scale-up"}

\* An engine call made while the context was or was not cancelled, and
\* whether it returned the context's error without acting.
Call(op, cancelled, unwound) == [op |-> op, cancelled |-> cancelled, unwound |-> unwound]

\* composeContainers lists under context.Background(): the call does not see
\* the cancellation.
ListCall(cancelled) == Call("list", cancelled, FALSE)

\* A call made under the ambient context: cancelled, it returns the
\* context's error.
CtxCall(op, cancelled) == Call(op, cancelled, cancelled)

InitCancel ==
    /\ cx \in [pc : {"loop"}, fn : Loops, n : 1..MaxBatched,
               parallelism : 1..MaxParallelism, delay : Delays,
               maxFailureRatio : MaxFailureRatios, failureAction : {"", "pause"},
               i : {0}, left : {0}, cancelled : {FALSE}, calls : {{}},
               overslept : {0}, totalUpdates : {0}, failures : {0},
               result : {"none"}]
    /\ PhasesAtRest
    /\ rn = NoRename
    /\ pj = NoProject
    /\ en = NoEntry
    /\ hc = NoHealth
    /\ ls = NoList

\* The ambient context is cancelled.
CX_Cancel ==
    /\ cx.pc \in {"loop", "sleep"}
    /\ ~cx.cancelled
    /\ cx' = [cx EXCEPT !.cancelled = TRUE]
    /\ UNCHANGED <<phases, rn, pj, en, hc, ls>>

\* After a batch: the next index, and the sleep for delay unless the batch
\* was the last.
AfterBatch(c, batchSize) ==
    IF WaitsForDelay(c.i, batchSize, c.n, c.delay)
    THEN [c EXCEPT !.i = NextBatch(@, c.parallelism), !.pc = "sleep", !.left = c.delay]
    ELSE [c EXCEPT !.i = NextBatch(@, c.parallelism)]

\* One batch of the loop.  Start-first lists, then composes up; stop-first
\* terminates, then lists and composes up; a rolling-update batch returns the
\* error of compose up or of the terminates.  Scale-up starts each container
\* of the batch and counts the failed starts, and the checks after the batch
\* decide whether the loop goes on.
CX_Batch ==
    /\ cx.pc = "loop"
    /\ cx.i < cx.n
    /\ LET batchSize == IF cx.i + cx.parallelism > cx.n THEN cx.n - cx.i
                        ELSE cx.parallelism
           k == cx.cancelled
           failedNow == IF k THEN batchSize ELSE 0
           counted == [cx EXCEPT !.calls = @ \cup {CtxCall("start", k)},
                                 !.totalUpdates = @ + batchSize,
                                 !.failures = @ + failedNow]
           v == BatchVerdict(counted.failures, counted.totalUpdates,
                             cx.maxFailureRatio, cx.failureAction)
       IN  cx' =
             CASE cx.fn = "start-first" ->
                    IF k
                    THEN [cx EXCEPT !.calls = @ \cup {ListCall(k), CtxCall("up", k)},
                                    !.pc = "done", !.result = "err_compose"]
                    ELSE AfterBatch([cx EXCEPT !.calls = @ \cup
                                        {ListCall(k), CtxCall("up", k),
                                         CtxCall("inspect", k), CtxCall("terminate", k)}],
                                    batchSize)
               [] cx.fn = "stop-first" ->
                    IF k
                    THEN [cx EXCEPT !.calls = @ \cup {CtxCall("terminate", k)},
                                    !.pc = "done", !.result = "err_stop"]
                    ELSE AfterBatch([cx EXCEPT !.calls = @ \cup
                                        {CtxCall("terminate", k), ListCall(k),
                                         CtxCall("up", k), CtxCall("inspect", k)}],
                                    batchSize)
               [] OTHER ->
                    IF v # "ok"
                    THEN [counted EXCEPT !.pc = "done", !.result = v]
                    ELSE IF ReturnsBatchErr(IF k THEN <<cx.i + 1, "start">> ELSE <<>>,
                                            cx.maxFailureRatio)
                    THEN [counted EXCEPT !.pc = "done", !.result = "err_batch"]
                    ELSE AfterBatch(counted, batchSize)
    /\ UNCHANGED <<phases, rn, pj, en, hc, ls>>

\* time.Sleep(delay), one second of it: the sleep does not look at the
\* context, and a second slept under a cancelled context is counted.
CX_Sleep ==
    /\ cx.pc = "sleep"
    /\ cx' = [cx EXCEPT !.left = @ - 1,
                        !.overslept = IF cx.cancelled THEN 1 ELSE @,
                        !.pc = IF cx.left = 1 THEN "loop" ELSE "sleep"]
    /\ UNCHANGED <<phases, rn, pj, en, hc, ls>>

\* The loop has run every batch.
CX_Return ==
    /\ cx.pc = "loop"
    /\ cx.i >= cx.n
    /\ cx' = [cx EXCEPT !.pc = "done", !.result = "ok"]
    /\ UNCHANGED <<phases, rn, pj, en, hc, ls>>

NextCancel == CX_Cancel \/ CX_Batch \/ CX_Sleep \/ CX_Return

SpecCancel == InitCancel /\ [][NextCancel]_vars

\* C25 as claimed: once the context is cancelled no further second of an
\* inter-batch delay is slept, every engine call made from then on returns
\* with the cancellation, and none terminates, creates or starts a container.
C25_Original ==
    /\ cx.overslept = 0
    /\ \A c \in cx.calls : c.cancelled => c.unwound

----------------------------------------------------------------------------
\* Start-first: failures are counted, not returned

\* A start-first rolling update with failure_action '' and max_failure_ratio 0.
StartFirstLenient ==
    /\ input.order = "start-first"
    /\ input.failureAction = ""
    /\ input.maxFailureRatio[1] = 0

\* C31 (step): under start-first with failure_action '' and max_failure_ratio
\* 0 the join of a batch goes on to the next batch whatever was counted, and
\* a health failure or a terminate error of a worker returns nothing.
C31_Step ==
    (StartFirstLenient /\ pc = "batch") =>
        /\ pc' \in {"batch", "ru_loop"}
        /\ result' = "none"

\* C31 (state): such a rolling update returns no ratio and no pause error.
C31_NoBatchError == StartFirstLenient => result \notin {"err_ratio", "err_pause"}

\* C31: in start-first a health failure of a new container is counted and
\* cleaned up and is no error by itself: with failure_action '' and
\* max_failure_ratio 0 a batch returns success however many new containers
\* fail, and a terminate error on an old container is logged only.
C31_FailuresOnlyCounted == [] C31_NoBatchError /\ [][C31_Step]_vars

\* C31 witness: a batch of two returned success although one new container
\* failed its health wait and the terminate of an old container failed.
C31_Witness ==
    /\ StartFirstLenient
    /\ pc = "ru_loop" /\ ru.batches = 1 /\ result = "none"
    /\ output.TotalUpdates = 2 /\ output.Failures = 1
    /\ \E k \in 1..Len(log) : log[k].phase = "retire-old" /\ ~log[k].ok

----------------------------------------------------------------------------
\* Scale-up: the sticky error of a batch

\* A worker of the scale-up batch got an error from ContainerStart: its
\* container counts as failed and was never started.
StartFailedInBatch ==
    \E w \in Workers :
        /\ workers[w].pc = "done"
        /\ workers[w].nc \in failed
        /\ containers[workers[w].nc].status = "created"

\* C32 as claimed: when a start of the batch has failed, the slot holds the
\* first start error, and after the batch with max_failure_ratio 0 a recorded
\* error is what scale-up returns.
C32_Original ==
    [][pc = "su_batch" =>
         /\ StartFailedInBatch => (su.batchErr # <<>> /\ su.batchErr[2] = "start")
         /\ (pc' # "su_batch" /\ su.batchErr # <<>> /\ input.maxFailureRatio[1] = 0)
                => result' = "err_batch"]_vars

\* C32 (step): a worker that counts a failure, of its start or of its health
\* wait, puts its error in the slot only when the slot is empty; after the
\* join, with max_failure_ratio 0 a recorded error makes scale-up return (the
\* recorded error, or the pause error under failure_action pause), and with
\* max_failure_ratio > 0 it goes on to the next batch unless the ratio is
\* exceeded or failure_action is pause.
C32_Step ==
    pc = "su_batch" =>
        /\ su'.failures = su.failures + 1 =>
               \E w \in Workers :
                   /\ workers[w].pc \in {"start", "health"}
                   /\ workers'[w].pc # workers[w].pc
                   /\ su'.batchErr =
                          IF su.batchErr = <<>>
                          THEN <<workers[w].nc, workers[w].pc>>
                          ELSE su.batchErr
        /\ su'.failures = su.failures => su'.batchErr = su.batchErr
        /\ (pc' # "su_batch" /\ su.batchErr # <<>>) =>
               IF input.maxFailureRatio[1] = 0
               THEN /\ pc' = "done"
                    /\ result' = IF input.failureAction = "pause" THEN "err_pause"
                                 ELSE "err_batch"
               ELSE IF RatioExceeded(su.failures, su.totalUpdates, input.maxFailureRatio)
               THEN result' = "err_ratio"
               ELSE IF input.failureAction = "pause"
               THEN result' = "err_pause"
               ELSE pc' = "su_loop" /\ result' = "none"

\* C32 (amended): in scale-up the first error of a batch, of a start or of a
\* health wait, stays in the slot; with max_failure_ratio 0 a recorded error
\* makes scale-up return an error, with max_failure_ratio > 0 it alone does
\* not abort.
C32_StickyFirstError == [][C32_Step]_vars

\* C32 witness: of a batch of two, one container failed its health wait and
\* then the start of the other failed; scale-up returned the health error.
C32_Witness ==
    /\ result = "err_batch"
    /\ su.failures = 2
    /\ su.batchErr # <<>> /\ su.batchErr[2] = "health"
    /\ \E c \in failed : containers[c].status = "created"

----------------------------------------------------------------------------
\* The counters shared by the workers of a batch

\* The workers of the batch that have not counted their container yet.
NotCounted == Cardinality({w \in Workers : workers[w].pc = "begin"})

\* C33: under every interleaving of the workers of a batch the shared
\* counters keep 0 <= failures <= totalUpdates, no increment is lost, and at
\* the ratio check after the join totalUpdates is the number of workers
\* launched so far and failures the number of those whose start or health
\* wait failed; for the rolling update and for scale-up.
C33_CountersExact ==
    /\ 0 <= output.Failures /\ output.Failures <= output.TotalUpdates
    /\ 0 <= su.failures /\ su.failures <= su.totalUpdates
    /\ output.Failures = ru.failedWorkers
    /\ su.failures = su.failedWorkers
    /\ pc \in {"ru_loop", "st_stop", "batch"} =>
           output.TotalUpdates + (IF pc = "batch" THEN NotCounted ELSE 0) = ru.launched
    /\ pc \in {"su_loop", "su_batch"} =>
           su.totalUpdates + (IF pc = "su_batch" THEN NotCounted ELSE 0) = su.launched
    /\ (pc = "batch" /\ Joined) => output.TotalUpdates = ru.launched
    /\ (pc = "su_batch" /\ Joined) => su.totalUpdates = su.launched

\* C33 witness: the two workers of a batch have joined, both counted, one of
\* them with a failure.
C33_Witness ==
    /\ pc = "batch" /\ Joined
    /\ ru.launched = 2
    /\ output.TotalUpdates = 2 /\ output.Failures = 1
    /\ \A w \in Workers : workers[w].pc = "done"

----------------------------------------------------------------------------
\* C34

\* C34 as stated: in a start-first batch every container that is treated as
\* new (handed to a health worker) was created by the compose up of that
\* batch; a container the engine already had before the call, in any status,
\* is never treated as new.
C34_Original ==
    [][(pc = "ru_loop" /\ pc' = "batch" /\ StartFirst)
          => \A w \in Workers :
                 workers'[w].nc # 0 => workers'[w].nc > Len(containers)]_vars

----------------------------------------------------------------------------
\* C35

\* The containers of the service that the engine holds, in any status.
OnEngine == {k \in 1..Len(containers) : containers[k].status \in Live}

\* C35 as stated: during a start-first rolling update the containers of the
\* service on the engine are never more than the desired replicas plus
\* parallelism.
C35_Original ==
    (pc \in {"ru_loop", "batch"} /\ StartFirst)
        => Cardinality(OnEngine) <= input.replicas + input.parallelism

----------------------------------------------------------------------------
\* C36

\* C36 as stated: under every update_config that DeployService accepts,
\* parallelism 0 included, the index of the rolling-update loop and of the
\* scale-up loop is strictly larger after each iteration (so the loops end
\* after finitely many batches).
C36_Original ==
    [][/\ (pc = "batch" /\ pc' = "ru_loop") => ru'.i > ru.i
       /\ (pc = "su_batch" /\ pc' = "su_loop") => su'.i > su.i]_vars

----------------------------------------------------------------------------
\* C37

\* rollingUpdateContainers has returned nil for a to-update set that is not
\* empty.
UpdateReturnedNil == pc = "after_ru" /\ Len(ru.list) > 0

\* Every container of the to-update set has been stopped and removed.
AllUpdatedRemoved == \A c \in Range(ru.list) : containers[c].status = "removed"

\* Every ContainerTerminate call made so far has succeeded.
EveryTerminateOk == \A k \in 1..Len(log) : log[k].ok

\* C37 as stated: when a rolling update of either order returns without
\* error, every container of the to-update set has been removed.
C37_Original ==
    UpdateReturnedNil => AllUpdatedRemoved

\* C37, amended: when a stop-first rolling update returns without error,
\* every container of the to-update set has been terminated and removed; when
\* a start-first one does, this holds if every new container passed its
\* health wait and every terminate succeeded.
C37_UpdatedRemoved ==
    UpdateReturnedNil =>
        IF StartFirst
        THEN (failed = {} /\ EveryTerminateOk) => AllUpdatedRemoved
        ELSE AllUpdatedRemoved

\* C37 witness: a start-first rolling update of three containers in two
\* batches has returned nil with every old container removed.
C37_Witness ==
    /\ UpdateReturnedNil
    /\ StartFirst
    /\ Len(ru.list) = 3
    /\ ru.batches = 2
    /\ failed = {}
    /\ EveryTerminateOk
    /\ AllUpdatedRemoved

----------------------------------------------------------------------------
\* C38

\* C38: a rolling-update batch that found no new container, so that
\* TotalUpdates is still 0 at the ratio check, returns success under every
\* maxFailureRatio and failureAction: 0/0 neither ends the deployment nor
\* trips the gate, and the loop goes on.
C38_Step ==
    (pc = "batch" /\ Joined /\ output.TotalUpdates = 0 /\ pc' # pc)
        => /\ pc' = "ru_loop"
           /\ result' = result
           /\ result = "none"

C38_EmptyBatchPasses == [][C38_Step]_vars

\* C38 witness: a batch without a new container has returned to the loop
\* under a positive maxFailureRatio and failure_action pause.
C38_Witness ==
    /\ pc = "ru_loop"
    /\ ru.batches > 0
    /\ ru.ups > 0
    /\ output.TotalUpdates = 0
    /\ input.maxFailureRatio[1] > 0
    /\ input.failureAction = "pause"
    /\ result = "none"

----------------------------------------------------------------------------
\* C39

\* The rolling update is under way.
InRollingUpdate == pc \in {"ru_loop", "batch", "st_stop"}

\* C39: a step of the rolling update that calls ContainerTerminate calls it
\* on a container of the to-update set (a member of the current batch), or on
\* a new container of the current batch whose health wait failed and which
\* has not passed one; it changes no other container.  A step without a
\* terminate call stops no running container.
C39_Step ==
    InRollingUpdate =>
        IF Len(log') > Len(log)
        THEN LET e == log'[Len(log')]
             IN  /\ \/ /\ e.phase \in {"retire-old", "stop-old"}
                       /\ e.id \in Range(ru.list)
                       /\ e.id \in Range(ru.batch)
                    \/ /\ e.phase = "cleanup-new"
                       /\ \E w \in Workers :
                              workers[w].pc = "cleanup" /\ workers[w].nc = e.id
                       /\ e.id \in failed
                       /\ e.id \notin passed
                 /\ Len(containers') = Len(containers)
                 /\ \A k \in 1..Len(containers) :
                        k # e.id => containers'[k] = containers[k]
        ELSE \A k \in 1..Len(containers) :
                 containers[k].status = "running" => containers'[k].status = "running"

C39_TerminatesOnlyItsOwn == [][C39_Step]_vars

\* C39 witness: a rolling update has ended after it retired an old container
\* and cleaned up a failed new one; a new container that passed, outside the
\* to-update set, is running.
C39_Witness ==
    /\ pc = "after_ru"
    /\ \E a, b \in 1..Len(log) :
           /\ log[a].phase = "retire-old" /\ log[a].ok
           /\ log[b].phase = "cleanup-new" /\ log[b].ok
    /\ \E c \in passed : c \notin Range(ru.list) /\ containers[c].status = "running"

----------------------------------------------------------------------------
\* C40

\* C40 as stated: in every phase the terminate of a container comes after its
\* pre-stop script, and its post-stop script is run only when the terminate
\* succeeded: never for a container whose terminate failed.
C40_Original ==
    lastStop.phase # "none" =>
        /\ lastStop.pre \in {"ok", "fail"}
        /\ lastStop.term # "ok" => lastStop.post = "notrun"

====
